---------------------------- MODULE Spec2Model ----------------------------
(***************************************************************************)
(* asmjit CodeBuilder: the node list with its cursor, the emission         *)
(* surface that records nodes, and the serializer that replays them.       *)
(* Nodes live in the builder's zone and are named by their allocation      *)
(* index 1..MaxNodes; Null (0) is the null pointer.                        *)
(***************************************************************************)
EXTENDS Integers, Sequences, FiniteSets, TLC

\* Number of nodes the base zone can hold in the model.
MaxNodes == 4

Null == 0
NodeIds == 1..MaxNodes

\* Number of CBPass objects the client has created.
MaxPasses == 3
PassIds == 1..MaxPasses
\* The CodeBuilder of this model (1) and another CodeBuilder (2).
Builders == {1, 2}

VARIABLES
  nNodes,      \* nodes allocated so far in _cbBaseZone (node k is the k-th allocation)
  nodes,       \* node index -> the node's fields other than its links
  linkPrev,    \* node index -> _link[kLinkPrev]
  linkNext,    \* node index -> _link[kLinkNext]
  firstNode,   \* CodeBuilder::_firstNode
  lastNode,    \* CodeBuilder::_lastNode
  cursor,      \* CodeBuilder::_cursor
  asserts,     \* names of the ASMJIT_ASSERTs that have failed so far
  fault,       \* "none", or the undefined behaviour the builder has run into
  lastError,   \* CodeEmitter::_lastError, the error latch
  labelsCount, \* labels the attached CodeHolder has issued
  cbLabels,    \* CodeBuilder::_cbLabels: label index + 1 -> label node or Null
  options,     \* CodeEmitter::_options, for the next emit only
  inlineComment, \* CodeEmitter::_inlineComment, for the next emit only
  op4,         \* CodeEmitter::_op4
  op5,         \* CodeEmitter::_op5
  opExtra,     \* CodeEmitter::_opExtra
  emitted,     \* the emitter calls that have returned kErrorOk, in order
  ser,         \* what the last serialize() did to its destination
  cbPasses,    \* builder -> CodeBuilder::_cbPasses, in registration order
  passCb,      \* pass -> CBPass::_cb, the builder it is assigned to, or Null
  destroyed,   \* the passes whose destructor has run
  translated,  \* X86SseToAvxPass::_translated of the pass SsePass
  cbPassZone,  \* CodeBuilder::_cbPassZone of builder 1: live, the passes whose
               \* allocations it holds; atEntry, what it held at the entry of
               \* each run of the last runPasses
  cbNodeFlags, \* CodeBuilder::_nodeFlags of builder 1
  call,        \* the last emitter or node-management call, with its result
  pre          \* the builder as it was when that call was entered

emitVars == <<fault, lastError, labelsCount, cbLabels, options, inlineComment,
              op4, op5, opExtra, emitted, ser>>
passVars == <<cbPasses, passCb, destroyed, translated, cbPassZone>>
vars == <<nNodes, nodes, linkPrev, linkNext, firstNode, lastNode, cursor,
          asserts, fault, lastError, labelsCount, cbLabels, options,
          inlineComment, op4, op5, opExtra, emitted, ser, cbPasses, passCb,
          destroyed, translated, cbPassZone, cbNodeFlags, call, pre>>

(***************************************************************************)
(* Errors, operands and strings.                                           *)
(***************************************************************************)
kErrorOk == "Ok"
kErrorNoHeapMemory == "NoHeapMemory"
kErrorInvalidLabel == "InvalidLabel"
kErrorInvalidInstruction == "InvalidInstruction"
kErrorInvalidState == "InvalidState"
kErrorInvalidArgument == "InvalidArgument"

\* Operand_::reset(): the operand that isNone().
NoOperand == "none"
\* A null const char*.
NoText == "null"
\* The content of storage that has been allocated and never written.
Undef == "undef"

(***************************************************************************)
(* Node flags and node construction (codebuilder.h).                       *)
(***************************************************************************)
kFlagIsCode == "IsCode"
kFlagIsData == "IsData"
kFlagIsInformative == "IsInformative"
kFlagIsRemovable == "IsRemovable"
kFlagHasNoEffect == "HasNoEffect"
kFlagActsAsInst == "ActsAsInst"
kFlagActsAsLabel == "ActsAsLabel"

\* A slot of the zone that holds no node yet.
NoNode == [type |-> "None"]

\* A bit of the uint32_t _nodeFlags that lies beyond the uint8_t _flags.
kFlagBeyondByte == "0x100"
\* The bits a node's _flags can hold (uint8_t; 0x20 is not named).
ByteFlags == {kFlagIsCode, kFlagIsData, kFlagIsInformative, kFlagIsRemovable,
              kFlagHasNoEffect, "0x20", kFlagActsAsInst, kFlagActsAsLabel}

\* CBNode::CBNode: links null, no position, no pass data, no inline comment;
\* _flags = static_cast<uint8_t>(flags | cb->_nodeFlags).
CBNode(type, flags, nodeFlags) ==
  [type |-> type, flags |-> (flags \cup nodeFlags) \cap ByteFlags,
   position |-> 0, passData |-> Null, inlineComment |-> NoText]

\* CBSentinel::CBSentinel
CBSentinel(nodeFlags) ==
  CBNode("Sentinel", {kFlagIsInformative, kFlagHasNoEffect}, nodeFlags)

(***************************************************************************)
(* The list operations, as functions of the list L = [prev, next, first,   *)
(* last, cursor, asserts].  Assignments are applied in the order of the    *)
(* code, so that aliased pointers behave as they do there.                 *)
(***************************************************************************)
CurList ==
  [prev |-> linkPrev, next |-> linkNext, first |-> firstNode,
   last |-> lastNode, cursor |-> cursor, asserts |-> asserts]

\* CBNode::_setPrev / _setNext
setPrev(L, n, v) == [L EXCEPT !.prev[n] = v]
setNext(L, n, v) == [L EXCEPT !.next[n] = v]

\* ASMJIT_ASSERT(cond): a failed assertion is recorded under its name.
assertOn(L, cond, name) ==
  IF cond THEN L ELSE [L EXCEPT !.asserts = @ \cup {name}]

addNodeNoLast(L, node) ==
  LET A == assertOn(L, L.prev[node] = Null /\ L.next[node] = Null, "addNode")
  IN IF A.cursor = Null
     THEN IF A.first = Null
          THEN [A EXCEPT !.first = node, !.last = node, !.cursor = node]
          ELSE LET a1 == setNext(A, node, A.first)
                   a2 == setPrev(a1, a1.first, node)
               IN [a2 EXCEPT !.first = node, !.cursor = node]
     ELSE LET p == A.cursor
              nx == A.next[p]
              a1 == setPrev(A, node, p)
              a2 == setNext(a1, node, nx)
              a3 == setNext(a2, p, node)
              a4 == IF nx # Null THEN setPrev(a3, nx, node) ELSE a3
          IN [a4 EXCEPT !.cursor = node]

\* CodeBuilder::addNode
addNode(L, node) ==
  LET A == assertOn(L, L.prev[node] = Null /\ L.next[node] = Null, "addNode")
  IN IF A.cursor = Null
     THEN IF A.first = Null
          THEN [A EXCEPT !.first = node, !.last = node, !.cursor = node]
          ELSE LET a1 == setNext(A, node, A.first)
                   a2 == setPrev(a1, a1.first, node)
               IN [a2 EXCEPT !.first = node, !.cursor = node]
     ELSE LET p == A.cursor
              nx == A.next[p]
              a1 == setPrev(A, node, p)
              a2 == setNext(a1, node, nx)
              a3 == setNext(a2, p, node)
              a4 == IF nx # Null THEN setPrev(a3, nx, node)
                                 ELSE [a3 EXCEPT !.last = node]
          IN [a4 EXCEPT !.cursor = node]

addAfterMovesCursor(L, node, ref) ==
  LET A == assertOn(L, L.prev[node] = Null /\ L.next[node] = Null, "addAfter")
      p == ref
      nx == A.next[ref]
      a1 == setPrev(A, node, p)
      a2 == setNext(a1, node, nx)
      a3 == setNext(a2, p, node)
      a4 == IF nx # Null THEN setPrev(a3, nx, node)
                         ELSE [a3 EXCEPT !.last = node]
  IN [a4 EXCEPT !.cursor = node]

\* CodeBuilder::addAfter
addAfter(L, node, ref) ==
  LET A == assertOn(L, L.prev[node] = Null /\ L.next[node] = Null, "addAfter")
      p == ref
      nx == A.next[ref]
      a1 == setPrev(A, node, p)
      a2 == setNext(a1, node, nx)
      a3 == setNext(a2, p, node)
  IN IF nx # Null THEN setPrev(a3, nx, node)
                  ELSE [a3 EXCEPT !.last = node]

addBeforeNoFirst(L, node, ref) ==
  LET A == assertOn(L, L.prev[node] = Null /\ L.next[node] = Null, "addBefore")
      p == A.prev[ref]
      nx == ref
      a1 == setPrev(A, node, p)
      a2 == setNext(a1, node, nx)
      a3 == setPrev(a2, nx, node)
  IN IF p # Null THEN setNext(a3, p, node) ELSE a3

\* CodeBuilder::addBefore
addBefore(L, node, ref) ==
  LET A == assertOn(L, L.prev[node] = Null /\ L.next[node] = Null, "addBefore")
      p == A.prev[ref]
      nx == ref
      a1 == setPrev(A, node, p)
      a2 == setNext(a1, node, nx)
      a3 == setPrev(a2, nx, node)
  IN IF p # Null THEN setNext(a3, p, node)
                 ELSE [a3 EXCEPT !.first = node]

removeNodeKeepsCursor(L, node) ==
  LET p == L.prev[node]
      nx == L.next[node]
      a1 == IF L.first = node THEN [L EXCEPT !.first = nx] ELSE setNext(L, p, nx)
      a2 == IF a1.last = node THEN [a1 EXCEPT !.last = p] ELSE setPrev(a1, nx, p)
  IN setNext(setPrev(a2, node, Null), node, Null)

\* CodeBuilder::removeNode
removeNode(L, node) ==
  LET p == L.prev[node]
      nx == L.next[node]
      a1 == IF L.first = node THEN [L EXCEPT !.first = nx] ELSE setNext(L, p, nx)
      a2 == IF a1.last = node THEN [a1 EXCEPT !.last = p] ELSE setPrev(a1, nx, p)
      a3 == setNext(setPrev(a2, node, Null), node, Null)
  IN IF a3.cursor = node THEN [a3 EXCEPT !.cursor = p] ELSE a3

\* The clearing loop of CodeBuilder::removeNodes, entered at `node`; `p` is
\* the predecessor of the run.  A run that does not reach `last` runs off the
\* end of the list and dereferences null.
RECURSIVE removeNodesLoop(_, _, _, _)
removeNodesLoop(L, node, last, p) ==
  LET nx == L.next[node]
      a0 == assertOn(L, nx # Null, "removeNodes.next")
      a1 == setNext(setPrev(a0, node, Null), node, Null)
      a2 == IF a1.cursor = node THEN [a1 EXCEPT !.cursor = p] ELSE a1
  IN IF node = last THEN a2
     ELSE IF nx = Null THEN [a2 EXCEPT !.asserts = @ \cup {"nullDeref"}]
     ELSE removeNodesLoop(a2, nx, last, p)

removeNodesUnlinkOnly(L, first, last) ==
  IF first = last THEN removeNode(L, first)
  ELSE LET p == L.prev[first]
           nx == L.next[last]
           a1 == IF L.first = first THEN [L EXCEPT !.first = nx]
                                    ELSE setNext(L, p, nx)
       IN IF a1.last = last THEN [a1 EXCEPT !.last = p]
                            ELSE setPrev(a1, nx, p)

\* CodeBuilder::removeNodes
removeNodes(L, first, last) ==
  IF first = last THEN removeNode(L, first)
  ELSE LET p == L.prev[first]
           nx == L.next[last]
           a1 == IF L.first = first THEN [L EXCEPT !.first = nx]
                                    ELSE setNext(L, p, nx)
           a2 == IF a1.last = last THEN [a1 EXCEPT !.last = p]
                                   ELSE setPrev(a1, nx, p)
       IN removeNodesLoop(a2, first, last, p)

\* CodeBuilder::setCursor: the new list and the returned old cursor.
setCursor(L, node) == [list |-> [L EXCEPT !.cursor = node], old |-> L.cursor]

(***************************************************************************)
(* Reading the list.                                                       *)
(***************************************************************************)
\* The nodes met from n by following the links f, at most fuel of them.
RECURSIVE Walk(_, _, _)
Walk(f, n, fuel) ==
  IF n = Null \/ fuel = 0 THEN <<>> ELSE <<n>> \o Walk(f, f[n], fuel - 1)

Reverse(s) == [i \in 1..Len(s) |-> s[Len(s) + 1 - i]]
Range(s) == {s[i] : i \in 1..Len(s)}
IndexOf(s, x) == CHOOSE i \in 1..Len(s) : s[i] = x
Without(s, S) == SelectSeq(s, LAMBDA x : x \notin S)

\* The list read from _firstNode by getNext(), and from _lastNode by getPrev().
Chain == Walk(linkNext, firstNode, MaxNodes + 1)
ChainBack == Walk(linkPrev, lastNode, MaxNodes + 1)

Allocated == 1..nNodes
InList(n) == n \in Range(Chain)
Detached(n) == n \in Allocated /\ ~InList(n)

\* What pre remembers of the builder at the entry of an operation.
Snapshot ==
  [chain |-> Chain, cursor |-> cursor, first |-> firstNode, last |-> lastNode,
   err |-> lastError, nNodes |-> nNodes, labelsCount |-> labelsCount,
   cbLabels |-> cbLabels, cbPasses |-> cbPasses, passCb |-> passCb,
   destroyed |-> destroyed, nodes |-> nodes, translated |-> translated]

\* The record of an operation: its name, its arguments, the node or label it
\* returned and the Error it returned.
Call(op, node, ref, ret, err) ==
  [op |-> op, node |-> node, ref |-> ref, ret |-> ret, err |-> err,
   given |-> Null]

\* Nothing has been serialized since the last change of the builder.
NoSer == [calls |-> <<>>, err |-> "none", failed |-> 0]

(***************************************************************************)
(* Initial state: a builder just constructed.                              *)
(***************************************************************************)
InitWith(template) ==
  /\ nNodes = 0
  /\ nodes = [n \in NodeIds |-> NoNode]
  /\ linkPrev = [n \in NodeIds |-> Null]
  /\ linkNext = [n \in NodeIds |-> Null]
  /\ firstNode = Null
  /\ lastNode = Null
  /\ cursor = Null
  /\ asserts = {}
  /\ fault = "none"
  /\ lastError = kErrorOk
  /\ labelsCount = 0
  /\ cbLabels = <<>>
  /\ options = {}
  /\ inlineComment = NoText
  /\ op4 = NoOperand
  /\ op5 = NoOperand
  /\ opExtra = NoOperand
  /\ emitted = <<>>
  /\ ser = NoSer
  /\ cbPasses = [b \in Builders |-> <<>>]
  /\ passCb = [p \in PassIds |-> Null]
  /\ destroyed = {}
  /\ translated = FALSE
  /\ cbPassZone = [live |-> {}, atEntry |-> <<>>]
  /\ cbNodeFlags = template
  /\ call = Call("init", Null, Null, Null, kErrorOk)
  /\ pre = [chain |-> <<>>, cursor |-> Null, first |-> Null, last |-> Null,
            err |-> kErrorOk, nNodes |-> 0, labelsCount |-> 0,
            cbLabels |-> <<>>, cbPasses |-> [b \in Builders |-> <<>>],
            passCb |-> [p \in PassIds |-> Null], destroyed |-> {},
            nodes |-> [n \in NodeIds |-> NoNode], translated |-> FALSE]

\* The state after construction: _nodeFlags(0).
Init == InitWith({})

\* The list L becomes the builder's list.
SetList(L) ==
  /\ linkPrev' = L.prev
  /\ linkNext' = L.next
  /\ firstNode' = L.first
  /\ lastNode' = L.last
  /\ cursor' = L.cursor
  /\ asserts' = L.asserts

(***************************************************************************)
(* Node management called directly (by a pass or by the client).  The      *)
(* caller hands in a detached node and anchors that are in the list.       *)
(***************************************************************************)
\* newNodeT<CBSentinel>(): a new node, not linked.
NewNodeT ==
  /\ nNodes < MaxNodes
  /\ nNodes' = nNodes + 1
  /\ nodes' = [nodes EXCEPT ![nNodes + 1] = CBSentinel(cbNodeFlags)]
  /\ call' = Call("newNode", nNodes + 1, Null, nNodes + 1, kErrorOk)
  /\ pre' = Snapshot
  /\ UNCHANGED <<linkPrev, linkNext, firstNode, lastNode, cursor, asserts>>
  /\ UNCHANGED emitVars
  /\ UNCHANGED <<passVars, cbNodeFlags>>

AddNode(n) ==
  /\ Detached(n)
  /\ SetList(addNode(CurList, n))
  /\ call' = Call("addNode", n, Null, n, kErrorOk)
  /\ pre' = Snapshot
  /\ UNCHANGED <<nNodes, nodes>>
  /\ UNCHANGED emitVars
  /\ UNCHANGED <<passVars, cbNodeFlags>>

AddAfter(n, ref) ==
  /\ Detached(n)
  /\ InList(ref)
  /\ SetList(addAfter(CurList, n, ref))
  /\ call' = Call("addAfter", n, ref, n, kErrorOk)
  /\ pre' = Snapshot
  /\ UNCHANGED <<nNodes, nodes>>
  /\ UNCHANGED emitVars
  /\ UNCHANGED <<passVars, cbNodeFlags>>

AddBefore(n, ref) ==
  /\ Detached(n)
  /\ InList(ref)
  /\ SetList(addBefore(CurList, n, ref))
  /\ call' = Call("addBefore", n, ref, n, kErrorOk)
  /\ pre' = Snapshot
  /\ UNCHANGED <<nNodes, nodes>>
  /\ UNCHANGED emitVars
  /\ UNCHANGED <<passVars, cbNodeFlags>>

RemoveNode(n) ==
  /\ InList(n)
  /\ SetList(removeNode(CurList, n))
  /\ call' = Call("removeNode", n, Null, n, kErrorOk)
  /\ pre' = Snapshot
  /\ UNCHANGED <<nNodes, nodes>>
  /\ UNCHANGED emitVars
  /\ UNCHANGED <<passVars, cbNodeFlags>>

\* removeNodes(first, last) on a run of the list: first is not after last.
RemoveNodes(first, last) ==
  /\ InList(first)
  /\ InList(last)
  /\ IndexOf(Chain, first) <= IndexOf(Chain, last)
  /\ SetList(removeNodes(CurList, first, last))
  /\ call' = Call("removeNodes", first, last, Null, kErrorOk)
  /\ pre' = Snapshot
  /\ UNCHANGED <<nNodes, nodes>>
  /\ UNCHANGED emitVars
  /\ UNCHANGED <<passVars, cbNodeFlags>>

SetCursor(n) ==
  /\ InList(n)
  /\ SetList(setCursor(CurList, n).list)
  /\ call' = Call("setCursor", n, Null, setCursor(CurList, n).old, kErrorOk)
  /\ pre' = Snapshot
  /\ UNCHANGED <<nNodes, nodes>>
  /\ UNCHANGED emitVars
  /\ UNCHANGED <<passVars, cbNodeFlags>>

NextList ==
  \/ NewNodeT
  \/ \E n \in NodeIds : AddNode(n)
  \/ \E n, ref \in NodeIds : AddAfter(n, ref)
  \/ \E n, ref \in NodeIds : AddBefore(n, ref)
  \/ \E n \in NodeIds : RemoveNode(n)
  \/ \E first, last \in NodeIds : RemoveNodes(first, last)
  \/ \E n \in NodeIds : SetCursor(n)

SpecList == Init /\ [][NextList]_vars


(***************************************************************************)
(* Properties of the node list under direct node management (SpecList).    *)
(***************************************************************************)
\* seq with n placed right after the element ref (at the front when ref is Null).
InsertAfter(seq, ref, n) ==
  IF ref = Null THEN <<n>> \o seq
  ELSE LET i == IndexOf(seq, ref)
       IN SubSeq(seq, 1, i) \o <<n>> \o SubSeq(seq, i + 1, Len(seq))

\* seq with n placed right before the element ref.
InsertBefore(seq, ref, n) ==
  LET i == IndexOf(seq, ref)
  IN SubSeq(seq, 1, i - 1) \o <<n>> \o SubSeq(seq, i, Len(seq))

\* The element before x in seq, Null when x is the first.
PredIn(seq, x) ==
  LET i == IndexOf(seq, x) IN IF i = 1 THEN Null ELSE seq[i - 1]

\* first and last are the two ends of the chain, in both directions.
EndsAgree ==
  /\ (firstNode = Null) <=> (lastNode = Null)
  /\ Chain # <<>> =>
       /\ Chain[1] = firstNode
       /\ Chain[Len(Chain)] = lastNode
       /\ linkPrev[firstNode] = Null
       /\ linkNext[lastNode] = Null

\* C1: after any sequence of add, add_after, add_before, remove, remove_range
\* and set_cursor calls whose preconditions hold, the node list is a
\* well-formed doubly-linked chain: first.prev = null, last.next = null, every
\* node n of the list has n.prev.next = n and n.next.prev = n, and first and
\* last are the ends reached by following the links in either direction.
C1_ListWellFormed ==
  /\ EndsAgree
  /\ Len(Chain) <= nNodes
  /\ ChainBack = Reverse(Chain)
  /\ \A n \in Range(Chain) :
       /\ linkPrev[n] # Null => linkNext[linkPrev[n]] = n
       /\ linkNext[n] # Null => linkPrev[linkNext[n]] = n
       /\ linkPrev[n] = Null => n = firstNode
       /\ linkNext[n] = Null => n = lastNode

\* C1 witness: a run has been removed from a list of four nodes and a node
\* has been left behind in the list.
C1_Witness ==
  /\ call.op = "removeNodes"
  /\ call.node # call.ref
  /\ Len(pre.chain) = 4
  /\ Len(Chain) >= 1

\* C6: add(n) for a detached node n: with a null cursor and an empty list,
\* first = last = cursor = n; with a null cursor and a non-empty list, n is
\* the new first node and cursor = n; otherwise n is linked between the old
\* cursor and its successor (becoming last when the cursor was last) and
\* cursor = n.  All other nodes keep their relative order.
C6_AddAtCursor ==
  call.op = "addNode" =>
    LET n == call.node IN
    /\ cursor = n
    /\ Chain = InsertAfter(pre.chain, pre.cursor, n)
    /\ ChainBack = Reverse(Chain)
    /\ (pre.cursor = Null /\ pre.chain = <<>>) => firstNode = n /\ lastNode = n
    /\ (pre.cursor = Null /\ pre.chain # <<>>) =>
          firstNode = n /\ lastNode = pre.last /\ linkNext[n] = pre.first
    /\ pre.cursor # Null =>
          /\ linkPrev[n] = pre.cursor
          /\ firstNode = pre.first
          /\ lastNode = (IF pre.cursor = pre.last THEN n ELSE pre.last)

\* C6 witness: add with a null cursor on a list that is not empty (prepend).
C6_Witness ==
  /\ call.op = "addNode"
  /\ pre.cursor = Null
  /\ Len(pre.chain) >= 2
  /\ Chain[1] = call.node

\* C7: remove(n) for a node n of the list: n is no longer reachable from
\* first or last, the remaining nodes keep their order, n.prev = n.next = null
\* afterwards, and the cursor is n's former predecessor (null if n was first)
\* if it was n, and unchanged otherwise.
C7_Remove ==
  call.op = "removeNode" =>
    LET n == call.node IN
    /\ n \notin Range(Chain)
    /\ n \notin Range(ChainBack)
    /\ Chain = Without(pre.chain, {n})
    /\ ChainBack = Reverse(Chain)
    /\ linkPrev[n] = Null
    /\ linkNext[n] = Null
    /\ cursor = (IF pre.cursor = n THEN PredIn(pre.chain, n) ELSE pre.cursor)

\* C7 witness: the removed node was the cursor and the first of several nodes.
C7_Witness ==
  /\ call.op = "removeNode"
  /\ pre.cursor = call.node
  /\ pre.first = call.node
  /\ Len(pre.chain) >= 3
  /\ cursor = Null

\* The nodes of the run first..last of the list seq.
RunOf(seq, first, last) ==
  {seq[i] : i \in IndexOf(seq, first)..IndexOf(seq, last)}

\* C8: remove_range(first, last) on a contiguous run of the list removes
\* exactly the nodes first..last, leaves the other nodes linked in their
\* order with first/last of the builder updated, clears prev and next of
\* every removed node, and moves the cursor to the predecessor of the run's
\* first node if it was inside the run (else leaves it unchanged).
C8_RemoveRange ==
  call.op = "removeNodes" =>
    LET run == RunOf(pre.chain, call.node, call.ref) IN
    /\ Chain = Without(pre.chain, run)
    /\ ChainBack = Reverse(Chain)
    /\ EndsAgree
    /\ \A r \in run : linkPrev[r] = Null /\ linkNext[r] = Null
    /\ cursor = (IF pre.cursor \in run THEN PredIn(pre.chain, call.node)
                                       ELSE pre.cursor)

\* C8 witness: a run of two inner nodes holding the cursor has been removed.
C8_Witness ==
  /\ call.op = "removeNodes"
  /\ call.node # call.ref
  /\ Len(pre.chain) = 4
  /\ pre.first # call.node
  /\ pre.last # call.ref
  /\ pre.cursor = call.ref
  /\ cursor = pre.first

\* C9: add_after(n, ref) and add_before(n, ref) link the detached n right
\* after / before ref, never change the cursor, and update the builder's last
\* (add_after at the last node) or first (add_before at the first node);
\* set_cursor(n) changes only the cursor and returns the previous cursor.
C9_AnchoredInsert ==
  /\ call.op = "addAfter" =>
       /\ Chain = InsertAfter(pre.chain, call.ref, call.node)
       /\ ChainBack = Reverse(Chain)
       /\ cursor = pre.cursor
       /\ firstNode = pre.first
       /\ lastNode = (IF call.ref = pre.last THEN call.node ELSE pre.last)
  /\ call.op = "addBefore" =>
       /\ Chain = InsertBefore(pre.chain, call.ref, call.node)
       /\ ChainBack = Reverse(Chain)
       /\ cursor = pre.cursor
       /\ lastNode = pre.last
       /\ firstNode = (IF call.ref = pre.first THEN call.node ELSE pre.first)
  /\ call.op = "setCursor" =>
       /\ cursor = call.node
       /\ call.ret = pre.cursor
       /\ Chain = pre.chain
       /\ ChainBack = Reverse(Chain)
       /\ firstNode = pre.first
       /\ lastNode = pre.last

\* C9 witness: add_after at the last node while the cursor is elsewhere.
C9_Witness ==
  /\ call.op = "addAfter"
  /\ call.ref = pre.last
  /\ pre.cursor # call.ref
  /\ pre.cursor # Null
  /\ lastNode = call.node


(***************************************************************************)
(* The emission surface.  Every operation is a function of the builder B   *)
(* (the list fields of CurList and the fields below) that yields the new   *)
(* builder and the Error returned.  B.allocOk is the number of zone         *)
(* allocations that still succeed during the call.                         *)
(***************************************************************************)
\* Most zone allocations one emitter call performs.
MaxAllocs == 2
\* Labels the CodeHolder can issue in the model.
MaxLabels == 1
\* Emitter calls returning kErrorOk that a run of the model makes.
MaxCalls == 3

kOptionMaybeFailureCase == "MaybeFailureCase"
kOptionStrictValidation == "StrictValidation"
kOptionOp4 == "Op4"
kOptionOp5 == "Op5"
kOptionOpExtra == "OpExtra"

kAlignCode == 0
kAlignData == 1

\* CBInst::kBaseOpCapacity and kExtendedOpCapacity (64-bit target:
\* sizeof(CBNode) = 40, sizeof(Operand) = 16).
kBaseOpCapacity == 4
kExtendedOpCapacity == 6
\* CBData::kInlineBufferSize = 64 - sizeof(CBNode) - 4 on the same target.
kInlineBufferSize == 20

\* Operand::kPackedIdMin: label index 0 has id kPackedIdMin; id 0 is no label.
kPackedIdMin == 256
packId(index) == index + kPackedIdMin
\* Operand::unpackId on uint32_t: an id below kPackedIdMin wraps around to an
\* index beyond every label.
unpackId(id) == IF id >= kPackedIdMin THEN id - kPackedIdMin ELSE 1000000 + id

CurB ==
  [prev |-> linkPrev, next |-> linkNext, first |-> firstNode,
   last |-> lastNode, cursor |-> cursor, asserts |-> asserts,
   nNodes |-> nNodes, nodes |-> nodes, fault |-> fault,
   lastError |-> lastError, labelsCount |-> labelsCount,
   cbLabels |-> cbLabels, options |-> options,
   inlineComment |-> inlineComment, op4 |-> op4, op5 |-> op5,
   opExtra |-> opExtra, nodeFlags |-> cbNodeFlags, allocOk |-> 0]

\* An operation's outcome.
Done(B, err) == [b |-> B, err |-> err]

\* CodeEmitter::setLastError: latches err and returns it.
setLastError(B, err) == Done([B EXCEPT !.lastError = err], err)

\* CodeEmitter::getGlobalOptions: no global option is set.
getGlobalOptions == {}

\* CodeEmitter::resetOptions and resetInlineComment.
resetOptions(B) == [B EXCEPT !.options = {}]
resetInlineComment(B) == [B EXCEPT !.inlineComment = NoText]

\* Zone::alloc / ZoneHeap::alloc for something that is not a node: whether it
\* succeeds, and the builder afterwards.
zoneAllocOk(B) == B.allocOk > 0
zoneAlloc(B) == IF zoneAllocOk(B) THEN [B EXCEPT !.allocOk = @ - 1] ELSE B

\* CodeBuilder::newNodeT: the node constructed in newly allocated storage of
\* the base zone, or Null when the allocation fails.
newNodeT(B, rec) ==
  IF B.allocOk > 0 /\ B.nNodes < MaxNodes
  THEN [b |-> [B EXCEPT !.nNodes = @ + 1, !.nodes[B.nNodes + 1] = rec,
                        !.allocOk = @ - 1],
        node |-> B.nNodes + 1]
  ELSE [b |-> B, node |-> Null]

\* CBInst::capacityOfOpCount
capacityOfOpCount(opCount) ==
  IF opCount <= kBaseOpCapacity THEN kBaseOpCapacity ELSE kExtendedOpCapacity

\* CBInst::CBInst: operand count 0; the operand slots and the extra operand
\* are not initialized.
CBInst(instId, opts, opCapacity, nodeFlags) ==
  CBNode("Inst", {kFlagIsCode, kFlagIsRemovable, kFlagActsAsInst}, nodeFlags)
  @@ [instId |-> instId, options |-> opts, opCapacity |-> opCapacity,
      opCount |-> 0, opExtra |-> Undef,
      ops |-> [i \in 1..opCapacity |-> Undef]]

\* CBInst::setOp / resetOp on operand slot index (from 0).
setOp(rec, index, op) ==
  IF index < rec.opCapacity THEN [rec EXCEPT !.ops[index + 1] = op] ELSE rec
resetOp(rec, index) == setOp(rec, index, NoOperand)

\* CBAlign::CBAlign
CBAlign(mode, alignment, nodeFlags) ==
  CBNode("Align", {kFlagIsCode, kFlagHasNoEffect}, nodeFlags)
  @@ [mode |-> mode, alignment |-> alignment]

\* CBData::CBData: data is NoText for a null pointer, else the bytes it points
\* to.  Up to kInlineBufferSize the bytes are copied into _buf (left as they
\* are when data is null); beyond it the node keeps the pointer itself.
CBData(data, size, nodeFlags) ==
  CBNode("Data", {kFlagIsData}, nodeFlags)
  @@ [size |-> size,
      storage |-> IF size <= kInlineBufferSize THEN "inline"
                  ELSE IF data = NoText THEN "null" ELSE "external",
      bytes |-> IF data = NoText THEN Undef ELSE data]

\* CBLabel::CBLabel
CBLabel(id, nodeFlags) ==
  CBNode("Label", {kFlagHasNoEffect, kFlagActsAsLabel}, nodeFlags)
  @@ [id |-> id, block |-> Null]

\* CBLabelData::CBLabelData
CBLabelData(id, nodeFlags) ==
  CBNode("LabelData", {kFlagIsData}, nodeFlags) @@ [id |-> id]

\* CBComment::CBComment
CBComment(text, nodeFlags) ==
  [CBNode("Comment", {kFlagIsInformative, kFlagHasNoEffect, kFlagIsRemovable},
          nodeFlags) EXCEPT !.inlineComment = text]

opCountOfUsed(o0, o1, o2, o3) ==
  Cardinality({i \in 1..4 : <<o0, o1, o2, o3>>[i] # NoOperand})

\* The operand count _emit derives from o0..o3.
opCountOf(o0, o1, o2, o3) ==
  IF o3 # NoOperand THEN 4
  ELSE IF o2 # NoOperand THEN 3
  ELSE IF o1 # NoOperand THEN 2
  ELSE IF o0 # NoOperand THEN 1 ELSE 0

kErrorsAndSpecialCases ==
  {kOptionMaybeFailureCase, kOptionStrictValidation, kOptionOp4, kOptionOp5}

\* The part of _emit after the error and special-case block: reset of the
\* one-shot state, allocation and construction of the CBInst, addNode.
emitNode(B, instId, o0, o1, o2, o3, opts, opCount, text) ==
  LET B1 == resetInlineComment(resetOptions(B))
      opCapacity == capacityOfOpCount(opCount)
      A == newNodeT(B1, CBInst(instId, opts, opCapacity, B.nodeFlags))
  IN IF A.node = Null THEN setLastError(A.b, kErrorNoHeapMemory)
     ELSE
       LET r0 == [A.b.nodes[A.node] EXCEPT !.opCount = opCount]
           r1 == IF kOptionOpExtra \in opts
                 THEN [r0 EXCEPT !.opExtra = B.opExtra] ELSE r0
           r2 == setOp(setOp(setOp(setOp(r1, 0, o0), 1, o1), 2, o2), 3, o3)
           r3 == IF opCapacity > 4
                 THEN LET q == resetOp(r2, 4)
                      IN IF opCapacity > 5 THEN resetOp(q, 5) ELSE q
                 ELSE r2
           r4 == IF kOptionOp4 \in opts THEN setOp(r3, 4, B.op4) ELSE r3
           r5 == IF kOptionOp5 \in opts THEN setOp(r4, 5, B.op5) ELSE r4
           \* _cbDataZone.dup of the inline comment: null when it fails
           dupOk == zoneAllocOk(A.b)
           B2 == IF text # NoText THEN zoneAlloc(A.b) ELSE A.b
           r6 == IF text # NoText
                 THEN [r5 EXCEPT !.inlineComment = IF dupOk THEN text ELSE NoText]
                 ELSE r5
           B3 == [B2 EXCEPT !.nodes[A.node] = r6]
       IN Done(addNode(B3, A.node), kErrorOk)

emitUnvalidated(B, instId, o0, o1, o2, o3, valid) ==
  LET opts0 == B.options \cup getGlobalOptions
      opCount0 == opCountOf(o0, o1, o2, o3)
  IN IF opts0 \cap kErrorsAndSpecialCases # {}
     THEN IF B.lastError # kErrorOk THEN Done(B, B.lastError)
          ELSE emitNode(B, instId, o0, o1, o2, o3,
                        opts0 \ {kOptionMaybeFailureCase, kOptionStrictValidation},
                        IF kOptionOp5 \in opts0 THEN 6
                        ELSE IF kOptionOp4 \in opts0 THEN 5 ELSE opCount0,
                        B.inlineComment)
     ELSE emitNode(B, instId, o0, o1, o2, o3, opts0, opCount0, B.inlineComment)

\* CodeBuilder::_emit; valid is the verdict of _validate.
emit(B, instId, o0, o1, o2, o3, valid) ==
  LET opts0 == B.options \cup getGlobalOptions
      text == B.inlineComment
      opCount0 == opCountOf(o0, o1, o2, o3)
  IN IF opts0 \cap kErrorsAndSpecialCases # {}
     THEN IF B.lastError # kErrorOk THEN Done(B, B.lastError)
          ELSE
            LET opCount == IF kOptionOp5 \in opts0 THEN 6
                           ELSE IF kOptionOp4 \in opts0 THEN 5 ELSE opCount0
            IN IF kOptionStrictValidation \in opts0 /\ ~valid
               THEN setLastError(resetInlineComment(resetOptions(B)),
                                 kErrorInvalidInstruction)
               ELSE emitNode(B, instId, o0, o1, o2, o3,
                             opts0 \ {kOptionMaybeFailureCase,
                                      kOptionStrictValidation},
                             opCount, text)
     ELSE emitNode(B, instId, o0, o1, o2, o3, opts0, opCount0, text)

\* ZoneVector::resize(n): the vector with n entries, new ones null.
resize(v, n) ==
  IF n <= Len(v) THEN SubSeq(v, 1, n)
  ELSE v \o [i \in 1..(n - Len(v)) |-> Null]

\* CodeHolder::isLabelValid
isLabelValid(B, id) == unpackId(id) < B.labelsCount

getCBLabelNoId(B, id) ==
  LET index == unpackId(id) IN
  IF B.lastError # kErrorOk THEN [b |-> B, err |-> B.lastError, node |-> Null]
  ELSE IF index >= B.labelsCount
  THEN [b |-> B, err |-> kErrorInvalidLabel, node |-> Null]
  ELSE IF index >= Len(B.cbLabels) /\ ~zoneAllocOk(B)
  THEN [b |-> B, err |-> kErrorNoHeapMemory, node |-> Null]
  ELSE
    LET B1 == IF index >= Len(B.cbLabels)
              THEN [zoneAlloc(B) EXCEPT !.cbLabels = resize(@, index + 1)]
              ELSE B
        found == B1.cbLabels[index + 1]
        A == newNodeT(B1, CBLabel(0, B.nodeFlags))
    IN IF found # Null THEN [b |-> B1, err |-> kErrorOk, node |-> found]
       ELSE IF A.node = Null
       THEN [b |-> A.b, err |-> kErrorNoHeapMemory, node |-> Null]
       ELSE [b |-> [A.b EXCEPT !.cbLabels[index + 1] = A.node],
             err |-> kErrorOk, node |-> A.node]

\* CodeBuilder::getCBLabel: the outcome and the label node found or created.
getCBLabel(B, id) ==
  LET index == unpackId(id) IN
  IF B.lastError # kErrorOk THEN [b |-> B, err |-> B.lastError, node |-> Null]
  ELSE IF index >= B.labelsCount
  THEN [b |-> B, err |-> kErrorInvalidLabel, node |-> Null]
  ELSE IF index >= Len(B.cbLabels) /\ ~zoneAllocOk(B)
  THEN [b |-> B, err |-> kErrorNoHeapMemory, node |-> Null]
  ELSE
    LET B1 == IF index >= Len(B.cbLabels)
              THEN [zoneAlloc(B) EXCEPT !.cbLabels = resize(@, index + 1)]
              ELSE B
        found == B1.cbLabels[index + 1]
        A == newNodeT(B1, CBLabel(id, B.nodeFlags))
    IN IF found # Null THEN [b |-> B1, err |-> kErrorOk, node |-> found]
       ELSE IF A.node = Null
       THEN [b |-> A.b, err |-> kErrorNoHeapMemory, node |-> Null]
       ELSE [b |-> [A.b EXCEPT !.cbLabels[index + 1] = A.node],
             err |-> kErrorOk, node |-> A.node]

registerLabelNodeKeepsId(B, node, holderErr) ==
  IF B.lastError # kErrorOk THEN Done(B, B.lastError)
  ELSE IF holderErr # kErrorOk THEN Done(B, holderErr)
  ELSE
    LET index == B.labelsCount
        B1 == [B EXCEPT !.labelsCount = @ + 1]
    IN IF ~zoneAllocOk(B1) THEN Done(B1, kErrorNoHeapMemory)
       ELSE Done([zoneAlloc(B1) EXCEPT
                    !.cbLabels = [resize(@, index + 1) EXCEPT ![index + 1] = node]],
                 kErrorOk)

\* CodeBuilder::registerLabelNode; holderErr is what CodeHolder::newLabelId
\* returns, which on success issues the id of index labelsCount.
registerLabelNode(B, node, holderErr) ==
  IF B.lastError # kErrorOk THEN Done(B, B.lastError)
  ELSE IF holderErr # kErrorOk THEN Done(B, holderErr)
  ELSE
    LET id == packId(B.labelsCount)
        index == unpackId(id)
        B1 == [B EXCEPT !.labelsCount = @ + 1]
        B2 == assertOn(B1, Len(B1.cbLabels) < index + 1, "registerLabelNode")
    IN IF ~zoneAllocOk(B2) THEN Done(B2, kErrorNoHeapMemory)
       ELSE Done([zoneAlloc(B2) EXCEPT
                    !.cbLabels = [resize(@, index + 1) EXCEPT ![index + 1] = node],
                    !.nodes[node].id = id],
                 kErrorOk)

\* CodeBuilder::newLabel: the outcome and the id of the Label returned.
newLabel(B, holderErr) ==
  IF B.lastError # kErrorOk THEN [b |-> B, err |-> B.lastError, id |-> 0]
  ELSE
    LET A == newNodeT(B, CBLabel(0, B.nodeFlags)) IN
    IF A.node = Null
    THEN [b |-> setLastError(A.b, kErrorNoHeapMemory).b,
          err |-> kErrorNoHeapMemory, id |-> 0]
    ELSE
      LET R == registerLabelNode(A.b, A.node, holderErr) IN
      IF R.err # kErrorOk
      THEN [b |-> setLastError(R.b, R.err).b, err |-> R.err, id |-> 0]
      ELSE [b |-> R.b, err |-> kErrorOk, id |-> R.b.nodes[A.node].id]

\* CodeBuilder::newNamedLabel; holderErr is what CodeHolder::newNamedLabelId
\* returns, which on success issues the id of index labelsCount into the local
\* id; the local is then overwritten with the id of the node, which nothing
\* has set, and the node is not registered.
newNamedLabel(B, holderErr) ==
  IF B.lastError # kErrorOk THEN [b |-> B, err |-> B.lastError, id |-> 0]
  ELSE
    LET A == newNodeT(B, CBLabel(0, B.nodeFlags)) IN
    IF A.node = Null
    THEN [b |-> setLastError(A.b, kErrorNoHeapMemory).b,
          err |-> kErrorNoHeapMemory, id |-> 0]
    ELSE IF holderErr # kErrorOk
    THEN [b |-> setLastError(A.b, holderErr).b, err |-> holderErr, id |-> 0]
    ELSE [b |-> [A.b EXCEPT !.labelsCount = @ + 1], err |-> kErrorOk,
          id |-> A.b.nodes[A.node].id]

\* CodeBuilder::bind
bind(B, label) ==
  IF B.lastError # kErrorOk THEN Done(B, B.lastError)
  ELSE LET G == getCBLabel(B, label) IN
       IF G.err # kErrorOk THEN setLastError(G.b, G.err)
       ELSE Done(addNode(G.b, G.node), kErrorOk)

\* CodeBuilder::newAlignNode and CodeBuilder::align
align(B, mode, alignment) ==
  IF B.lastError # kErrorOk THEN Done(B, B.lastError)
  ELSE LET A == newNodeT(B, CBAlign(mode, alignment, B.nodeFlags)) IN
       IF A.node = Null THEN setLastError(A.b, kErrorNoHeapMemory)
       ELSE Done(addNode(A.b, A.node), kErrorOk)

\* CodeBuilder::newDataNode: data beyond kInlineBufferSize is first cloned in
\* the data zone; with a null data the clone is allocated and not kept.
newDataNodeNoClone(B, data, size) ==
  newNodeT(B, CBData(data, size, B.nodeFlags))

\* The node keeps, for a size beyond kInlineBufferSize, the pointer it is
\* given: the clone ("cloned") when data is not null.
newDataNode(B, data, size) ==
  IF size > kInlineBufferSize /\ ~zoneAllocOk(B) THEN [b |-> B, node |-> Null]
  ELSE newNodeT(IF size > kInlineBufferSize THEN zoneAlloc(B) ELSE B,
                IF size > kInlineBufferSize /\ data # NoText
                THEN [CBData(data, size, B.nodeFlags) EXCEPT !.storage = "cloned"]
                ELSE CBData(data, size, B.nodeFlags))

\* CodeBuilder::embed
embed(B, data, size) ==
  IF B.lastError # kErrorOk THEN Done(B, B.lastError)
  ELSE LET A == newDataNode(B, data, size) IN
       IF A.node = Null THEN setLastError(A.b, kErrorNoHeapMemory)
       ELSE Done(addNode(A.b, A.node), kErrorOk)

\* CodeBuilder::embedLabel
embedLabel(B, label) ==
  IF B.lastError # kErrorOk THEN Done(B, B.lastError)
  ELSE LET A == newNodeT(B, CBLabelData(label, B.nodeFlags)) IN
       IF A.node = Null THEN setLastError(A.b, kErrorNoHeapMemory)
       ELSE Done(addNode(A.b, A.node), kErrorOk)

\* ConstPool::fill(dst) on the data node: a null dst is written through.
fill(B, node, pool) ==
  IF B.nodes[node].storage = "null" THEN [B EXCEPT !.fault = "nullWrite"]
  ELSE [B EXCEPT !.nodes[node].bytes = pool.bytes]

\* CodeBuilder::embedConstPool; pool = [size, alignment, bytes].
embedConstPool(B, label, pool) ==
  IF B.lastError # kErrorOk THEN Done(B, B.lastError)
  ELSE IF ~isLabelValid(B, label) THEN setLastError(B, kErrorInvalidLabel)
  ELSE
    LET R1 == align(B, kAlignData, pool.alignment) IN
    IF R1.err # kErrorOk THEN R1
    ELSE
      LET R2 == bind(R1.b, label) IN
      IF R2.err # kErrorOk THEN R2
      ELSE
        LET A == newDataNode(R2.b, NoText, pool.size) IN
        IF A.node = Null THEN setLastError(A.b, kErrorNoHeapMemory)
        ELSE LET F == fill(A.b, A.node, pool) IN
             IF F.fault # "none" THEN Done(F, kErrorOk)
             ELSE Done(addNode(F, A.node), kErrorOk)

\* CodeBuilder::newCommentNode and CodeBuilder::comment, len left at its
\* default kInvalidIndex (the length is strlen(s)); a text that is not empty is
\* duplicated in the data zone.
comment(B, text) ==
  IF B.lastError # kErrorOk THEN Done(B, B.lastError)
  ELSE IF text # NoText /\ text # "" /\ ~zoneAllocOk(B)
  THEN setLastError(B, kErrorNoHeapMemory)
  ELSE LET B1 == IF text # NoText /\ text # "" THEN zoneAlloc(B) ELSE B
           A == newNodeT(B1, CBComment(text, B.nodeFlags))
       IN IF A.node = Null THEN setLastError(A.b, kErrorNoHeapMemory)
          ELSE Done(addNode(A.b, A.node), kErrorOk)

(***************************************************************************)
(* serialize(dst).  dst is an emitter that records every call made on it,  *)
(* with the one-shot state set before the call, and whose failAt-th call    *)
(* returns an error (none does when failAt = 0).                           *)
(***************************************************************************)
kErrorDst == "DstError"

\* One-shot state of an emitter that has not been set.
Unset == "unset"
NoTransient ==
  [options |-> {}, opExtra |-> Unset, op4 |-> Unset, op5 |-> Unset,
   comment |-> NoText]

\* An emitter call: the operation, its arguments, and the one-shot state
\* that was in force.
EmitterCall(op, a, t) == [op |-> op, a |-> a, t |-> t]

\* The call serialize makes on dst for node record r: <<>> when it makes none.
dstCallOf(r) ==
  LET c == [NoTransient EXCEPT !.comment = r.inlineComment] IN
  IF r.type = "Inst" \/ (r.type \notin {"Data", "Align", "Label", "LabelData",
                                         "ConstPool", "Comment"}
                         /\ kFlagActsAsInst \in r.flags)
  THEN <<EmitterCall("emit",
                     <<r.instId, r.ops[1], r.ops[2], r.ops[3], r.ops[4]>>,
                     [c EXCEPT !.options = r.options, !.opExtra = r.opExtra,
                               !.op4 = IF r.opCount > 4 THEN r.ops[5] ELSE Unset,
                               !.op5 = IF r.opCount = 6 THEN r.ops[6] ELSE Unset])>>
  ELSE IF r.type = "Data"
  THEN <<EmitterCall("embed",
                     <<IF r.storage = "null" THEN NoText ELSE r.bytes, r.size>>, c)>>
  ELSE IF r.type = "Align"
  THEN <<EmitterCall("align", <<r.mode, r.alignment>>, c)>>
  ELSE IF r.type = "Label" \/ (r.type \notin {"LabelData", "ConstPool", "Comment"}
                               /\ kFlagActsAsLabel \in r.flags)
  THEN <<EmitterCall("bind", <<r.id>>, c)>>
  ELSE IF r.type = "LabelData"
  THEN <<EmitterCall("embedLabel", <<r.id>>, c)>>
  ELSE IF r.type = "ConstPool"
  THEN <<EmitterCall("embedConstPool", <<r.id, r.constPool>>, c)>>
  ELSE IF r.type = "Comment"
  THEN <<EmitterCall("comment", <<r.inlineComment>>, c)>>
  ELSE <<>>

RECURSIVE serializeLoopNoBreak(_, _, _, _, _)
serializeLoopNoBreak(B, n, calls, failAt, fuel) ==
  LET made == calls \o dstCallOf(B.nodes[n])
  IN IF B.next[n] = Null \/ fuel = 0
     THEN [calls |-> made,
           err |-> IF failAt \in 1..Len(made) THEN kErrorDst ELSE kErrorOk,
           failed |-> IF failAt \in 1..Len(made) THEN failAt ELSE 0]
     ELSE serializeLoopNoBreak(B, B.next[n], made, failAt, fuel - 1)

\* The do-while loop of serialize entered with node_ = n, a node: the calls
\* made so far are `calls`; fuel bounds the nodes visited, and a walk that
\* outlasts it never ends (the links form a cycle).  failed: the index of
\* the call on dst that returned an error, 0 when none did.
RECURSIVE serializeLoop(_, _, _, _, _)
serializeLoop(B, n, calls, failAt, fuel) ==
  LET made == calls \o dstCallOf(B.nodes[n])
      err == IF Len(made) > Len(calls) /\ Len(made) = failAt
             THEN kErrorDst ELSE kErrorOk
  IN IF err # kErrorOk
     THEN [calls |-> made, err |-> err, failed |-> Len(made)]
     ELSE IF B.next[n] = Null
     THEN [calls |-> made, err |-> kErrorOk, failed |-> 0]
     ELSE IF fuel = 0 THEN [calls |-> made, err |-> "hang", failed |-> 0]
     ELSE serializeLoop(B, B.next[n], made, failAt, fuel - 1)

\* CodeBuilder::serialize: what it can do.  With _firstNode null the loop
\* body reads through the null pointer before the loop condition is tested:
\* the run either stops there or goes on with what it read.
serialize(B, failAt) ==
  IF B.first = Null
  THEN {[calls |-> <<>>, err |-> "crash", failed |-> 0],
        [calls |-> <<EmitterCall(Undef, <<>>, NoTransient)>>, err |-> Undef,
         failed |-> 0]}
  ELSE {serializeLoop(B, B.first, <<>>, failAt, MaxNodes)}

(***************************************************************************)
(* The operations of the emitter as actions.                               *)
(***************************************************************************)
\* The builder becomes R.b; the call is recorded, and remembered in emitted
\* when it returned kErrorOk.
ReturnsB(R, op, given, ret, ecall) ==
  /\ SetList(R.b)
  /\ nNodes' = R.b.nNodes
  /\ nodes' = R.b.nodes
  /\ fault' = R.b.fault
  /\ lastError' = R.b.lastError
  /\ labelsCount' = R.b.labelsCount
  /\ cbLabels' = R.b.cbLabels
  /\ options' = R.b.options
  /\ inlineComment' = R.b.inlineComment
  /\ op4' = R.b.op4
  /\ op5' = R.b.op5
  /\ opExtra' = R.b.opExtra
  /\ emitted' = IF R.err = kErrorOk /\ ecall # <<>>
                THEN emitted \o ecall ELSE emitted
  /\ ser' = NoSer
  /\ call' = [Call(op, Null, Null, ret, R.err) EXCEPT !.given = given]
  /\ pre' = Snapshot

\* The same for a call that leaves the passes as they are.
ReturnsGiven(R, op, given, ret, ecall) ==
  /\ ReturnsB(R, op, given, ret, ecall)
  /\ UNCHANGED <<passVars, cbNodeFlags>>

Returns(R, op, ret, ecall) == ReturnsGiven(R, op, Null, ret, ecall)

\* The builder at the entry of a call during which m allocations succeed.
Enter(m) == [CurB EXCEPT !.allocOk = m]

\* The emitter can be called: it has not crashed, and the run is not over.
CanCall == fault = "none" /\ Len(emitted) < MaxCalls

\* The one-shot state of the builder, as the next emit will see it.
CurTransient ==
  [options |-> options, opExtra |-> opExtra, op4 |-> op4, op5 |-> op5,
   comment |-> inlineComment]

\* given: the verdict of the validator when _emit consults it.
Emit(instId, o0, o1, o2, o3, valid, m) ==
  /\ CanCall
  /\ ReturnsGiven(emit(Enter(m), instId, o0, o1, o2, o3, valid), "emit",
                  IF lastError = kErrorOk /\ kOptionStrictValidation \in options
                  THEN (IF valid THEN "accepted" ELSE "rejected")
                  ELSE "notAsked",
                  Null,
             <<EmitterCall("emit", <<instId, o0, o1, o2, o3>>, CurTransient)>>)

\* given: the latch is Ok, no code-holder failure and no allocation failure
\* (the node, then the growth of the label map).
NewLabel(holderErr, m) ==
  /\ CanCall
  /\ LET R == newLabel(Enter(m), holderErr)
     IN ReturnsGiven(R, "newLabel",
                     /\ lastError = kErrorOk /\ holderErr = kErrorOk
                     /\ m >= 2 /\ nNodes < MaxNodes,
                     R.id, <<>>)

NewNamedLabel(holderErr, m) ==
  /\ CanCall
  /\ LET R == newNamedLabel(Enter(m), holderErr)
     IN ReturnsGiven(R, "newNamedLabel",
                     /\ lastError = kErrorOk /\ holderErr = kErrorOk
                     /\ m >= 1 /\ nNodes < MaxNodes,
                     R.id, <<>>)

\* given: the latch is Ok and the label is one the CodeHolder has issued.
Bind(label, m) ==
  /\ CanCall
  /\ ReturnsGiven(bind(Enter(m), label), "bind",
                  lastError = kErrorOk /\ isLabelValid(CurB, label), Null,
             <<EmitterCall("bind", <<label>>, NoTransient)>>)

Align(mode, alignment, m) ==
  /\ CanCall
  /\ Returns(align(Enter(m), mode, alignment), "align", Null,
             <<EmitterCall("align", <<mode, alignment>>, NoTransient)>>)

Embed(data, size, m) ==
  /\ CanCall
  /\ Returns(embed(Enter(m), data, size), "embed", Null,
             <<EmitterCall("embed", <<data, size>>, NoTransient)>>)

EmbedLabel(label, m) ==
  /\ CanCall
  /\ Returns(embedLabel(Enter(m), label), "embedLabel", Null,
             <<EmitterCall("embedLabel", <<label>>, NoTransient)>>)

EmbedConstPool(label, pool, m) ==
  /\ CanCall
  /\ ReturnsGiven(embedConstPool(Enter(m), label, pool), "embedConstPool",
                  lastError = kErrorOk /\ isLabelValid(CurB, label), Null,
             <<EmitterCall("embedConstPool", <<label, pool>>, NoTransient)>>)

Comment(text, m) ==
  /\ CanCall
  /\ Returns(comment(Enter(m), text), "comment", Null,
             <<EmitterCall("comment", <<text>>, NoTransient)>>)

\* CodeEmitter::setOptions
SetOptions(opts) ==
  /\ fault = "none"
  /\ options # opts
  /\ options' = opts
  /\ call' = Call("setOptions", Null, Null, Null, kErrorOk)
  /\ pre' = Snapshot
  /\ UNCHANGED <<passVars, cbNodeFlags>>
  /\ ser' = NoSer
  /\ UNCHANGED <<nNodes, nodes, linkPrev, linkNext, firstNode, lastNode,
                 cursor, asserts, fault, lastError, labelsCount, cbLabels,
                 inlineComment, op4, op5, opExtra, emitted>>

\* CodeEmitter::setOp4: stores the operand and sets kOptionOp4.
SetOp4(op) ==
  /\ fault = "none"
  /\ op4' = op
  /\ options' = options \cup {kOptionOp4}
  /\ call' = Call("setOp4", Null, Null, Null, kErrorOk)
  /\ pre' = Snapshot
  /\ UNCHANGED <<passVars, cbNodeFlags>>
  /\ ser' = NoSer
  /\ UNCHANGED <<nNodes, nodes, linkPrev, linkNext, firstNode, lastNode,
                 cursor, asserts, fault, lastError, labelsCount, cbLabels,
                 inlineComment, op5, opExtra, emitted>>

\* CodeEmitter::setOp5: stores the operand and sets kOptionOp5.
SetOp5(op) ==
  /\ fault = "none"
  /\ op5' = op
  /\ options' = options \cup {kOptionOp5}
  /\ call' = Call("setOp5", Null, Null, Null, kErrorOk)
  /\ pre' = Snapshot
  /\ UNCHANGED <<passVars, cbNodeFlags>>
  /\ ser' = NoSer
  /\ UNCHANGED <<nNodes, nodes, linkPrev, linkNext, firstNode, lastNode,
                 cursor, asserts, fault, lastError, labelsCount, cbLabels,
                 inlineComment, op4, opExtra, emitted>>

\* CodeEmitter::setInlineComment
SetInlineComment(text) ==
  /\ fault = "none"
  /\ inlineComment # text
  /\ inlineComment' = text
  /\ call' = Call("setInlineComment", Null, Null, Null, kErrorOk)
  /\ pre' = Snapshot
  /\ UNCHANGED <<passVars, cbNodeFlags>>
  /\ ser' = NoSer
  /\ UNCHANGED <<nNodes, nodes, linkPrev, linkNext, firstNode, lastNode,
                 cursor, asserts, fault, lastError, labelsCount, cbLabels,
                 options, op4, op5, opExtra, emitted>>

Serialize(failAt) ==
  /\ fault = "none"
  /\ ser' \in serialize(CurB, failAt)
  /\ UNCHANGED <<call, pre>>
  /\ UNCHANGED <<passVars, cbNodeFlags>>
  /\ UNCHANGED <<nNodes, nodes, linkPrev, linkNext, firstNode, lastNode,
                 cursor, asserts, fault, lastError, labelsCount, cbLabels,
                 options, inlineComment, op4, op5, opExtra, emitted>>

\* The inputs the emitter is driven with.
AllocChoices == 0..MaxAllocs
InstIds == {1}
OperandInputs == {<<"r0", "r1", NoOperand, NoOperand>>}
LabelInputs == {0} \cup {packId(i) : i \in 0..(MaxLabels - 1)}
DataInputs == {<<"d", kInlineBufferSize>>}
PoolInputs == {[size |-> 8, alignment |-> 8, bytes |-> "p"]}
TextInputs == {"hi"}

Next ==
  \/ \E id \in InstIds, o \in OperandInputs, valid \in BOOLEAN,
        m \in AllocChoices : Emit(id, o[1], o[2], o[3], o[4], valid, m)
  \/ \E holderErr \in {kErrorOk, kErrorNoHeapMemory}, m \in AllocChoices :
        /\ holderErr = kErrorOk => labelsCount < MaxLabels
        /\ NewLabel(holderErr, m)
  \/ \E label \in LabelInputs, m \in AllocChoices : Bind(label, m)
  \/ \E m \in AllocChoices : Align(kAlignCode, 16, m)
  \/ \E d \in DataInputs, m \in AllocChoices : Embed(d[1], d[2], m)
  \/ \E label \in LabelInputs, m \in AllocChoices : EmbedLabel(label, m)
  \/ \E label \in LabelInputs, pool \in PoolInputs, m \in AllocChoices :
        EmbedConstPool(label, pool, m)
  \/ \E text \in TextInputs, m \in AllocChoices : Comment(text, m)
  \/ SetOptions({kOptionStrictValidation})
  \/ \E failAt \in 0..MaxNodes : Serialize(failAt)

Spec == Init /\ [][Next]_vars

(***************************************************************************)
(* Properties of emission and serialization (Spec).                        *)
(***************************************************************************)
EmissionOps ==
  {"emit", "bind", "align", "embed", "embedLabel", "embedConstPool", "comment"}

\* An emitter call without the one-shot state: operation and arguments.
OpAndArgs(c) == [op |-> c.op, a |-> c.a]
Proj(calls) == [i \in 1..Len(calls) |-> OpAndArgs(calls[i])]

RECURSIVE Flatten(_)
Flatten(ss) == IF ss = <<>> THEN <<>> ELSE Head(ss) \o Flatten(Tail(ss))

IsPrefix(s, t) == Len(s) <= Len(t) /\ s = SubSeq(t, 1, Len(s))

\* The calls that replay the nodes of the list, read from first to last.
Recorded == Proj(Flatten([i \in 1..Len(Chain) |-> dstCallOf(nodes[Chain[i]])]))

\* The calls that replay the nodes an emitter call records: embedConstPool
\* records an align, the label and the data; every other call records itself.
NodesOf(c) ==
  IF c.op = "embedConstPool"
  THEN <<[op |-> "align", a |-> <<kAlignData, c.a[2].alignment>>],
         [op |-> "bind", a |-> <<c.a[1]>>],
         [op |-> "embed", a |-> <<c.a[2].bytes, c.a[2].size>>]>>
  ELSE <<OpAndArgs(c)>>
Expected == Flatten([i \in 1..Len(emitted) |-> NodesOf(emitted[i])])

\* C2: once the error latch is non-Ok, no emission entry point (emit with any
\* options and operands, bind, align, embed, embed_label, embed_const_pool,
\* comment) appends a node: the node list and the cursor are as before the call.
C2_LatchedEmitsNothing ==
  (call.op \in EmissionOps /\ pre.err # kErrorOk) =>
    /\ Chain = pre.chain
    /\ cursor = pre.cursor
    /\ nNodes = pre.nNodes

\* C3: with no pass run and no set_cursor / add_before / add_after / remove
\* call, after any sequence of successful emission calls the node list read
\* from first to last is exactly the emission order, the cursor is the last
\* node, and serialize visits the nodes and calls the destination in that
\* order.
C3_EmissionOrder ==
  (lastError = kErrorOk /\ fault = "none" /\ emitted # <<>>) =>
    /\ Recorded = Expected
    /\ cursor = lastNode
    /\ lastNode = Chain[Len(Chain)]
    /\ ser.err # "none" =>
         /\ ser.err \in {kErrorOk, kErrorDst}
         /\ IsPrefix(Proj(ser.calls), Expected)
         /\ ser.err = kErrorOk => Proj(ser.calls) = Expected

\* C4: round trip: for every sequence of emitter calls (emit, bind, align,
\* embed, embed_label, embed_const_pool, comment) made successfully, serialize
\* into a capturing emitter issues the same ordered sequence of emitter calls,
\* with the same operations and arguments.
C4_RoundTrip ==
  (lastError = kErrorOk /\ fault = "none" /\ ser.err \notin {"none", kErrorDst}) =>
    /\ ser.err = kErrorOk
    /\ Proj(ser.calls) = Proj(emitted)

\* C5: serialize on a builder whose node list is empty (first_node = null)
\* invokes no operation on the destination emitter and returns Ok.
C5_SerializeEmpty ==
  (ser.err # "none" /\ firstNode = Null) =>
    /\ ser.calls = <<>>
    /\ ser.err = kErrorOk

\* C10: in every state reachable through the list operations (set_cursor
\* called with a node of the list), the cursor is null only when the list is
\* empty, and otherwise is a node currently in the list.
C10_CursorInList ==
  /\ cursor = Null => Chain = <<>>
  /\ cursor # Null => InList(cursor)

(***************************************************************************)
(* Labels: new_label, new_named_label, bind and embed_const_pool on a       *)
(* CodeHolder that issues up to MaxLabelIds labels (SpecLabels).            *)
(***************************************************************************)
MaxLabelIds == 2
\* Most zone allocations one of these calls performs: embed_const_pool that
\* creates the align node, grows the label map, creates the label node, clones
\* the data and creates the data node.
MaxLabelAllocs == 5
LabelAllocChoices == 0..MaxLabelAllocs

LabelIdInputs == {0} \cup {packId(i) : i \in 0..(MaxLabelIds - 1)}
\* A pool that fits the inline buffer of a data node and one that does not.
LabelPoolInputs ==
  {[size |-> 8, alignment |-> 8, bytes |-> "p"],
   [size |-> kInlineBufferSize + 1, alignment |-> 16, bytes |-> "q"]}

NextLabels ==
  \/ \E holderErr \in {kErrorOk, kErrorNoHeapMemory}, m \in LabelAllocChoices :
        /\ holderErr = kErrorOk => labelsCount < MaxLabelIds
        /\ NewLabel(holderErr, m)
  \/ \E holderErr \in {kErrorOk, kErrorNoHeapMemory}, m \in LabelAllocChoices :
        /\ holderErr = kErrorOk => labelsCount < MaxLabelIds
        /\ NewNamedLabel(holderErr, m)
  \/ \E label \in LabelIdInputs, m \in LabelAllocChoices : Bind(label, m)
  \/ \E label \in LabelIdInputs, pool \in LabelPoolInputs, m \in LabelAllocChoices :
        EmbedConstPool(label, pool, m)

SpecLabels == Init /\ [][NextLabels]_vars

\* The emitter call that returned last (made with the arguments c.a).
LastEmitted == emitted[Len(emitted)]

\* Entry i (from 1) of the label map is null or a label node whose id maps to
\* the index i - 1.
LabelEntryOk(i) ==
  cbLabels[i] = Null
  \/ /\ nodes[cbLabels[i]].type = "Label"
     /\ unpackId(nodes[cbLabels[i]].id) = i - 1

\* A bind or embed_const_pool of the label id has returned Ok.
Bound(id) ==
  \E k \in 1..Len(emitted) :
    emitted[k].op \in {"bind", "embedConstPool"} /\ emitted[k].a[1] = id

C12_NewLabel ==
  call.op = "newLabel" =>
    IF pre.err = kErrorOk /\ call.given
    THEN /\ call.err = kErrorOk
         /\ lastError = kErrorOk
         /\ call.ret = packId(pre.labelsCount)
         /\ Len(cbLabels) = pre.labelsCount + 1
         /\ cbLabels[pre.labelsCount + 1] = pre.nNodes + 1
         /\ nNodes = pre.nNodes + 1
         /\ nodes[nNodes].type = "Label"
         /\ nodes[nNodes].id = call.ret
    ELSE /\ call.ret = 0
         /\ lastError # kErrorOk

\* C12 witness: a second label has been created after a first one.
C12_Witness ==
  /\ call.op = "newLabel"
  /\ call.given
  /\ pre.err = kErrorOk
  /\ pre.labelsCount >= 1
  /\ call.ret = packId(1)

\* C13: new_named_label behaves like new_label using the code-holder's
\* named-label allocator: on success it returns a Label wrapping the id that
\* the allocator issued, the label map is grown to id + 1 entries, and
\* labels[id] is the newly allocated label node carrying that id.
C13_NewNamedLabel ==
  (call.op = "newNamedLabel" /\ call.err = kErrorOk) =>
    /\ call.ret = packId(pre.labelsCount)
    /\ Len(cbLabels) >= pre.labelsCount + 1
    /\ cbLabels[pre.labelsCount + 1] = pre.nNodes + 1
    /\ nodes[pre.nNodes + 1].id = call.ret

\* C14: bind(label) with an Ok latch: if the label's index is not below the
\* code-holder's labels_count, InvalidLabel is returned and latched and no
\* node is appended; otherwise (allocation failures apart) the node used is
\* labels[index] when non-null, else a newly created label node with that id
\* stored into labels[index], and that node is added at the cursor (it is
\* placed right after the old cursor and becomes the cursor).
C14_Bind ==
  (call.op = "bind" /\ pre.err = kErrorOk) =>
    /\ ~call.given =>
         /\ call.err = kErrorInvalidLabel
         /\ lastError = kErrorInvalidLabel
         /\ Chain = pre.chain
         /\ cursor = pre.cursor
         /\ nNodes = pre.nNodes
    /\ call.given => call.err \in {kErrorOk, kErrorNoHeapMemory}
    /\ (call.given /\ call.err = kErrorOk) =>
         LET label == LastEmitted.a[1]
             i == unpackId(label) + 1
             old == IF i <= Len(pre.cbLabels) THEN pre.cbLabels[i] ELSE Null
             node == cbLabels[i]
         IN /\ old # Null => node = old /\ nNodes = pre.nNodes
            /\ old = Null =>
                 /\ node = pre.nNodes + 1
                 /\ nodes[node].type = "Label"
                 /\ nodes[node].id = label
            /\ cursor = node
            /\ Chain = InsertAfter(pre.chain, pre.cursor, node)

\* C18: embed_const_pool(label, pool) with an Ok latch, a valid label and no
\* allocation failure appends exactly three nodes at the cursor, in this
\* order: an Align node (data mode, alignment = pool alignment), the label's
\* Label node, and a Data node of size pool.size filled from the pool; the
\* cursor ends on the Data node.  With an invalid label it latches InvalidLabel
\* and appends nothing.
C18_EmbedConstPool ==
  (call.op = "embedConstPool" /\ pre.err = kErrorOk) =>
    /\ ~call.given =>
         /\ call.err = kErrorInvalidLabel
         /\ lastError = kErrorInvalidLabel
         /\ Chain = pre.chain
         /\ nNodes = pre.nNodes
    /\ (call.given /\ call.err # kErrorNoHeapMemory) =>
         LET label == LastEmitted.a[1]
             pool == LastEmitted.a[2]
             k == IF pre.cursor = Null THEN 0 ELSE IndexOf(pre.chain, pre.cursor)
         IN /\ call.err = kErrorOk
            /\ fault = "none"
            /\ Len(Chain) = Len(pre.chain) + 3
            /\ SubSeq(Chain, 1, k) = SubSeq(pre.chain, 1, k)
            /\ SubSeq(Chain, k + 4, Len(Chain))
                 = SubSeq(pre.chain, k + 1, Len(pre.chain))
            /\ nodes[Chain[k + 1]].type = "Align"
            /\ nodes[Chain[k + 1]].mode = kAlignData
            /\ nodes[Chain[k + 1]].alignment = pool.alignment
            /\ Chain[k + 2] = cbLabels[unpackId(label) + 1]
            /\ nodes[Chain[k + 2]].type = "Label"
            /\ nodes[Chain[k + 3]].type = "Data"
            /\ nodes[Chain[k + 3]].size = pool.size
            /\ nodes[Chain[k + 3]].bytes = pool.bytes
            /\ cursor = Chain[k + 3]

(***************************************************************************)
(* emit with its one-shot state: options, sidecar operands, inline comment  *)
(* and strict validation (SpecEmit).                                        *)
(***************************************************************************)
\* Instructions emitted in a run.
MaxEmits == 2

\* No operand, an operand after a None one, and four operands.
EmitOperandInputs ==
  {<<NoOperand, NoOperand, NoOperand, NoOperand>>,
   <<NoOperand, "r1", NoOperand, NoOperand>>,
   <<"r0", "r1", "r2", "r3">>}

NextEmit ==
  \/ \E id \in InstIds, o \in EmitOperandInputs, valid \in BOOLEAN,
        m \in AllocChoices :
        /\ Len(emitted) < MaxEmits
        /\ Emit(id, o[1], o[2], o[3], o[4], valid, m)
  \/ Len(emitted) < MaxEmits /\ SetOptions({kOptionStrictValidation})
  \/ Len(emitted) < MaxEmits /\ SetOp4("r4")
  \/ Len(emitted) < MaxEmits /\ SetOp5("r5")
  \/ Len(emitted) < MaxEmits /\ SetInlineComment("hi")

SpecEmit == Init /\ [][NextEmit]_vars

(***************************************************************************)
(* embed at the boundary of the inline buffer, and serialize (SpecData).    *)
(***************************************************************************)
EmbedInputs ==
  {<<"d", kInlineBufferSize>>, <<"e", kInlineBufferSize + 1>>}

NextData ==
  \/ \E d \in EmbedInputs, m \in AllocChoices : Embed(d[1], d[2], m)
  \/ \E m \in AllocChoices : Align(kAlignData, 8, m)
  \/ \E failAt \in 0..MaxNodes : Serialize(failAt)

SpecData == Init /\ [][NextData]_vars

(***************************************************************************)
(* Properties of emit (SpecEmit) and of embed (SpecData).                   *)
(***************************************************************************)
\* k + 1 for the highest index k in 0..3 of a non-None operand of the call c,
\* 0 when there is none.
HighestUsed(c) ==
  IF \E i \in 1..4 : c.a[i + 1] # NoOperand
  THEN CHOOSE i \in 1..4 :
         /\ c.a[i + 1] # NoOperand
         /\ \A j \in (i + 1)..4 : c.a[j + 1] = NoOperand
  ELSE 0

\* Operand slot index (from 0) of the node record r holds op; a slot beyond
\* the capacity of the node holds nothing.
SlotHolds(r, index, op) ==
  IF index < r.opCapacity THEN r.ops[index + 1] = op ELSE op = NoOperand

\* The last call was an emit that returned Ok; its node is the newest one.
EmitReturnedOk == call.op = "emit" /\ call.err = kErrorOk

\* C15: emit(inst_id, o0..o3) records an instruction node whose operand count
\* is k+1 where k is the highest index in 0..3 holding a non-None operand (0
\* when all four are None; None operands below k still count), raised to 5
\* when option Op4 is set and to 6 when option Op5 is set, with operand slots
\* 4 and 5 holding the builder's op4/op5 sidecar operands when the respective
\* option is set and None otherwise.
C15_OperandCount ==
  EmitReturnedOk =>
    LET c == LastEmitted
        r == nodes[nNodes]
    IN /\ nNodes = pre.nNodes + 1
       /\ cursor = nNodes
       /\ r.type = "Inst"
       /\ r.instId = c.a[1]
       /\ r.opCount = (IF kOptionOp5 \in c.t.options THEN 6
                       ELSE IF kOptionOp4 \in c.t.options THEN 5
                       ELSE HighestUsed(c))
       /\ r.opCount <= r.opCapacity
       /\ \A i \in 0..3 : SlotHolds(r, i, c.a[i + 2])
       /\ SlotHolds(r, 4, IF kOptionOp4 \in c.t.options THEN c.t.op4 ELSE NoOperand)
       /\ SlotHolds(r, 5, IF kOptionOp5 \in c.t.options THEN c.t.op5 ELSE NoOperand)

\* C15 witness: an emit whose only operand follows a None one, with Op5 set
\* and Op4 not set.
C15_Witness ==
  /\ EmitReturnedOk
  /\ LastEmitted.a[2] = NoOperand
  /\ LastEmitted.a[3] # NoOperand
  /\ kOptionOp5 \in LastEmitted.t.options
  /\ kOptionOp4 \notin LastEmitted.t.options
  /\ nodes[nNodes].opCount = 6

\* C16: the builder's transient options and inline comment are one-shot: the
\* instruction node created by an emit carries the options (those consumed at
\* emit time stripped) and a copy of the inline comment set before that emit,
\* and after that emit returns successfully the builder's options and inline
\* comment are cleared, so that a following emit with nothing set anew creates
\* a node with no inline comment and no carried-over options.
C16_OneShot ==
  EmitReturnedOk =>
    /\ nodes[nNodes].options
         = LastEmitted.t.options \ {kOptionMaybeFailureCase, kOptionStrictValidation}
    /\ nodes[nNodes].inlineComment = LastEmitted.t.comment
    /\ options = {}
    /\ inlineComment = NoText

\* C17: emit with option StrictValidation set and an Ok latch: when the
\* validator rejects the instruction, no node is allocated or appended, the
\* validator's error is returned and latched, and the builder's one-shot
\* options and inline comment are cleared; when the validator accepts,
\* emission proceeds as without the option (a node is appended at the cursor
\* with the option stripped, or the allocation fails with NoHeapMemory).
C17_StrictValidation ==
  (call.op = "emit" /\ pre.err = kErrorOk) =>
    /\ call.given = "rejected" =>
         /\ call.err = kErrorInvalidInstruction
         /\ lastError = kErrorInvalidInstruction
         /\ nNodes = pre.nNodes
         /\ Chain = pre.chain
         /\ cursor = pre.cursor
         /\ options = {}
         /\ inlineComment = NoText
    /\ call.given = "accepted" =>
         /\ call.err \in {kErrorOk, kErrorNoHeapMemory}
         /\ lastError = call.err
         /\ options = {}
         /\ inlineComment = NoText
         /\ call.err = kErrorNoHeapMemory => Chain = pre.chain
         /\ call.err = kErrorOk =>
              /\ nNodes = pre.nNodes + 1
              /\ Chain = InsertAfter(pre.chain, pre.cursor, nNodes)
              /\ cursor = nNodes
              /\ kOptionStrictValidation \in LastEmitted.t.options
              /\ nodes[nNodes].options
                   = LastEmitted.t.options \ {kOptionStrictValidation}

\* C17 witness: the validator has rejected an instruction emitted with an
\* inline comment set, after an instruction was recorded.
C17_Witness ==
  /\ call.op = "emit"
  /\ call.given = "rejected"
  /\ pre.chain # <<>>
  /\ nNodes = pre.nNodes
  /\ lastError = kErrorInvalidInstruction

\* The last call was an embed that returned Ok.
EmbedReturnedOk == call.op = "embed" /\ call.err = kErrorOk

\* C19: embed(bytes, size) with non-null bytes creates one Data node whose
\* size is size and whose data equals the source bytes: for size <=
\* InlineBufferSize the bytes live in the node's inline buffer, for size >
\* InlineBufferSize (starting at InlineBufferSize + 1) they live in a copy
\* allocated in the data arena; serialize then issues exactly one embed call
\* of that size with byte-identical content.
C19_Embed ==
  /\ EmbedReturnedOk =>
       LET c == LastEmitted
           r == nodes[nNodes]
       IN /\ nNodes = pre.nNodes + 1
          /\ Chain = InsertAfter(pre.chain, pre.cursor, nNodes)
          /\ r.type = "Data"
          /\ r.size = c.a[2]
          /\ r.bytes = c.a[1]
          /\ r.storage = (IF c.a[2] <= kInlineBufferSize THEN "inline" ELSE "cloned")
  /\ ser.err = kErrorOk =>
       /\ Proj(ser.calls) = Recorded
       /\ \A n \in Range(Chain) :
            nodes[n].type = "Data" =>
              Len(SelectSeq(ser.calls,
                            LAMBDA d : /\ d.op = "embed"
                                       /\ d.a = <<nodes[n].bytes, nodes[n].size>>))
                = Cardinality({q \in Range(Chain) :
                                 /\ nodes[q].type = "Data"
                                 /\ nodes[q].bytes = nodes[n].bytes
                                 /\ nodes[q].size = nodes[n].size})

\* C19 witness: an embed of InlineBufferSize + 1 bytes has been serialized
\* into one embed call.
C19_Witness ==
  /\ EmbedReturnedOk
  /\ LastEmitted.a[2] = kInlineBufferSize + 1
  /\ nodes[nNodes].storage = "cloned"
  /\ Len(emitted) = 1
  /\ ser.err = kErrorOk
  /\ Proj(ser.calls) = <<[op |-> "embed", a |-> <<"e", kInlineBufferSize + 1>>]>>

(***************************************************************************)
(* The pass registry: addPass on two builders that share the client's      *)
(* passes (SpecPass).                                                       *)
(***************************************************************************)
\* The pass lists and the owners of the passes.
CurPasses == [lists |-> cbPasses, cb |-> passCb]

\* ZoneVector::append: the pass at the end of the list.
append(list, pass) == Append(list, pass)

addPassTwice(S, this, pass, appendOk) ==
  IF pass = Null THEN [s |-> S, err |-> kErrorNoHeapMemory]
  ELSE IF S.cb[pass] # Null /\ S.cb[pass] # this
  THEN [s |-> S, err |-> kErrorInvalidState]
  ELSE IF ~appendOk THEN [s |-> S, err |-> kErrorNoHeapMemory]
  ELSE [s |-> [lists |-> [S.lists EXCEPT ![this] = append(@, pass)],
               cb |-> [S.cb EXCEPT ![pass] = this]],
        err |-> kErrorOk]

\* CodeBuilder::addPass called on the builder this; appendOk: the growth of
\* _cbPasses succeeds.
addPass(S, this, pass, appendOk) ==
  IF pass = Null THEN [s |-> S, err |-> kErrorNoHeapMemory]
  ELSE IF S.cb[pass] # Null
  THEN IF S.cb[pass] = this THEN [s |-> S, err |-> kErrorOk]
       ELSE [s |-> S, err |-> kErrorInvalidState]
  ELSE IF ~appendOk THEN [s |-> S, err |-> kErrorNoHeapMemory]
  ELSE [s |-> [lists |-> [S.lists EXCEPT ![this] = append(@, pass)],
               cb |-> [S.cb EXCEPT ![pass] = this]],
        err |-> kErrorOk]

\* The call this->addPass(pass); addPass neither reads nor sets the latch.
AddPass(this, pass, appendOk) ==
  /\ fault = "none"
  /\ LET R == addPass(CurPasses, this, pass, appendOk)
     IN /\ cbPasses' = R.s.lists
        /\ passCb' = R.s.cb
        /\ call' = Call("addPass", pass, this, Null, R.err)
  /\ pre' = Snapshot
  /\ UNCHANGED <<destroyed, translated, cbPassZone, cbNodeFlags>>
  /\ UNCHANGED <<nNodes, nodes, linkPrev, linkNext, firstNode, lastNode,
                 cursor, asserts>>
  /\ UNCHANGED emitVars

NextPass ==
  \E this \in Builders, pass \in PassIds \cup {Null}, appendOk \in BOOLEAN :
    AddPass(this, pass, appendOk)

SpecPass == Init /\ [][NextPass]_vars

\* C20: add_pass(p) on a builder: if p is attached to a different builder it
\* returns InvalidState and neither pass list changes; if p is already
\* attached to this builder it returns Ok and the pass list is unchanged (p is
\* not listed twice); if p is unattached it is appended at the end of this
\* builder's pass list and p's builder becomes this builder (unless the list
\* cannot grow: NoHeapMemory, nothing changed); no other pass changes owner.
C20_AddPass ==
  (call.op = "addPass" /\ call.node # Null) =>
    LET p == call.node
        this == call.ref
        same == cbPasses = pre.cbPasses /\ passCb = pre.passCb
    IN /\ (pre.passCb[p] # Null /\ pre.passCb[p] # this) =>
            call.err = kErrorInvalidState /\ same
       /\ pre.passCb[p] = this => call.err = kErrorOk /\ same
       /\ pre.passCb[p] = Null =>
            /\ call.err \in {kErrorOk, kErrorNoHeapMemory}
            /\ call.err = kErrorNoHeapMemory => same
            /\ call.err = kErrorOk =>
                 /\ cbPasses = [pre.cbPasses EXCEPT ![this] = Append(@, p)]
                 /\ passCb = [pre.passCb EXCEPT ![p] = this]
       /\ \A b \in Builders :
            Cardinality({i \in 1..Len(cbPasses[b]) : cbPasses[b][i] = p}) <= 1

\* C20 witness: a pass registered second in a builder's list has been added
\* to that builder again, while the other builder holds a pass too.
C20_Witness ==
  /\ call.op = "addPass"
  /\ call.node # Null
  /\ call.err = kErrorOk
  /\ pre.passCb[call.node] = call.ref
  /\ Len(cbPasses[call.ref]) = 2
  /\ cbPasses[call.ref][2] = call.node
  /\ \E b \in Builders : b # call.ref /\ cbPasses[b] # <<>>

(***************************************************************************)
(* The pass registry with deletePass (SpecRegistry).                       *)
(***************************************************************************)
\* Globals::kInvalidIndex
kInvalidIndex == 0 - 1

\* ZoneVector::indexOf: the first index (from 0) of pass, or kInvalidIndex.
indexOf(list, pass) ==
  IF \E i \in 1..Len(list) : list[i] = pass
  THEN (CHOOSE i \in 1..Len(list) :
          list[i] = pass /\ \A j \in 1..(i - 1) : list[j] # pass) - 1
  ELSE kInvalidIndex

\* ZoneVector::removeAt: the list without the element at index (from 0).
removeAt(list, index) ==
  SubSeq(list, 1, index) \o SubSeq(list, index + 2, Len(list))

deletePassKeepsListed(S, this, pass) ==
  IF pass = Null
  THEN [s |-> S, err |-> kErrorInvalidArgument, destroy |-> FALSE,
        assert |-> FALSE]
  ELSE IF S.cb[pass] # Null /\ S.cb[pass] # this
  THEN [s |-> S, err |-> kErrorInvalidState, destroy |-> FALSE,
        assert |-> FALSE]
  ELSE [s |-> [lists |-> S.lists, cb |-> [S.cb EXCEPT ![pass] = Null]],
        err |-> kErrorOk, destroy |-> TRUE, assert |-> FALSE]

\* CodeBuilder::deletePass called on the builder this.  destroy: the
\* destructor of the pass has run; assert: ASMJIT_ASSERT(index !=
\* Globals::kInvalidIndex) has failed, and removeAt is given that index.
deletePass(S, this, pass) ==
  IF pass = Null
  THEN [s |-> S, err |-> kErrorInvalidArgument, destroy |-> FALSE,
        assert |-> FALSE]
  ELSE IF S.cb[pass] # Null
  THEN IF S.cb[pass] # this
       THEN [s |-> S, err |-> kErrorInvalidState, destroy |-> FALSE,
             assert |-> FALSE]
       ELSE LET index == indexOf(S.lists[this], pass)
            IN IF index = kInvalidIndex
               THEN [s |-> [lists |-> S.lists,
                            cb |-> [S.cb EXCEPT ![pass] = Null]],
                     err |-> kErrorOk, destroy |-> TRUE, assert |-> TRUE]
               ELSE [s |-> [lists |-> [S.lists EXCEPT
                                         ![this] = removeAt(@, index)],
                            cb |-> [S.cb EXCEPT ![pass] = Null]],
                     err |-> kErrorOk, destroy |-> TRUE, assert |-> FALSE]
  ELSE [s |-> S, err |-> kErrorOk, destroy |-> TRUE, assert |-> FALSE]

\* The call this->deletePass(pass); removeAt(kInvalidIndex) is undefined.
DeletePass(this, pass) ==
  /\ fault = "none"
  /\ LET R == deletePass(CurPasses, this, pass)
     IN /\ cbPasses' = R.s.lists
        /\ passCb' = R.s.cb
        /\ destroyed' = IF R.destroy THEN destroyed \cup {pass} ELSE destroyed
        /\ asserts' = IF R.assert
                      THEN asserts \cup {"deletePass: index != kInvalidIndex"}
                      ELSE asserts
        /\ fault' = IF R.assert THEN "removeAtInvalidIndex" ELSE fault
        /\ call' = Call("deletePass", pass, this, Null, R.err)
  /\ pre' = Snapshot
  /\ UNCHANGED <<translated, cbPassZone, cbNodeFlags>>
  /\ UNCHANGED <<nNodes, nodes, linkPrev, linkNext, firstNode, lastNode,
                 cursor>>
  /\ UNCHANGED <<lastError, labelsCount, cbLabels, options, inlineComment,
                 op4, op5, opExtra, emitted, ser>>

\* The client calls addPass and deletePass with null or with a pass that has
\* not been destroyed.
LivePasses == (PassIds \ destroyed) \cup {Null}

NextRegistry ==
  \/ \E this \in Builders, pass \in LivePasses, appendOk \in BOOLEAN :
       AddPass(this, pass, appendOk)
  \/ \E this \in Builders, pass \in LivePasses : DeletePass(this, pass)

SpecRegistry == Init /\ [][NextRegistry]_vars

\* C21: delete_pass(p): with p = null it returns InvalidArgument and changes
\* nothing; with p attached to a different builder it returns InvalidState
\* and p stays attached and undestroyed (nothing changes); with p attached to
\* this builder it removes p from this builder's pass list (keeping the order
\* of the other passes), clears p's builder, destroys p and returns Ok.
C21_DeletePass ==
  call.op = "deletePass" =>
    LET p == call.node
        this == call.ref
        same == /\ cbPasses = pre.cbPasses
                /\ passCb = pre.passCb
                /\ destroyed = pre.destroyed
    IN /\ p = Null => call.err = kErrorInvalidArgument /\ same
       /\ (p # Null /\ pre.passCb[p] # Null /\ pre.passCb[p] # this) =>
            /\ call.err = kErrorInvalidState
            /\ same
            /\ passCb[p] = pre.passCb[p]
            /\ p \notin destroyed
       /\ (p # Null /\ pre.passCb[p] = this) =>
            /\ call.err = kErrorOk
            /\ fault = "none"
            /\ cbPasses = [pre.cbPasses EXCEPT
                             ![this] = SelectSeq(@, LAMBDA q : q # p)]
            /\ Len(cbPasses[this]) = Len(pre.cbPasses[this]) - 1
            /\ passCb = [pre.passCb EXCEPT ![p] = Null]
            /\ destroyed = pre.destroyed \cup {p}

\* C21 witness: the pass in the middle of a list of three has been deleted.
C21_Witness ==
  /\ call.op = "deletePass"
  /\ call.err = kErrorOk
  /\ Len(pre.cbPasses[call.ref]) = 3
  /\ pre.cbPasses[call.ref][2] = call.node
  /\ Len(cbPasses[call.ref]) = 2
  /\ call.node \in destroyed

(***************************************************************************)
(* runPasses on the builder 1, whose passes are run by the client's         *)
(* CBPass::run implementations (SpecRun).  The failAt-th run of a call      *)
(* returns an error (none does when failAt = 0).                           *)
(***************************************************************************)
kErrorPass == "PassError"

RECURSIVE runPassesLoopNoBreak(_, _, _, _)
runPassesLoopNoBreak(passes, i, ran, failAt) ==
  IF i > Len(passes)
  THEN [ran |-> ran,
        err |-> IF failAt \in 1..Len(ran) THEN kErrorPass ELSE kErrorOk]
  ELSE runPassesLoopNoBreak(passes, i + 1, Append(ran, passes[i]), failAt)

\* The loop of runPasses from index i (from 1) on: the passes run so far are
\* ran.
RECURSIVE runPassesLoop(_, _, _, _)
runPassesLoop(passes, i, ran, failAt) ==
  IF i > Len(passes) THEN [ran |-> ran, err |-> kErrorOk]
  ELSE LET ran1 == Append(ran, passes[i])
           err == IF Len(ran1) = failAt THEN kErrorPass ELSE kErrorOk
       IN IF err # kErrorOk THEN [ran |-> ran1, err |-> err]
          ELSE runPassesLoop(passes, i + 1, ran1, failAt)

\* A runPasses that does not look at the latch.
runPassesUnlatched(B, passes, failAt) ==
  LET L == runPassesLoop(passes, 1, <<>>, failAt)
  IN IF L.err # kErrorOk
     THEN [b |-> setLastError(B, L.err).b, err |-> L.err, ran |-> L.ran]
     ELSE [b |-> B, err |-> kErrorOk, ran |-> L.ran]

\* CodeBuilder::runPasses on the builder B whose pass list is passes.
runPasses(B, passes, failAt) ==
  IF B.lastError # kErrorOk
  THEN [b |-> B, err |-> B.lastError, ran |-> <<>>]
  ELSE LET L == runPassesLoop(passes, 1, <<>>, failAt)
       IN IF L.err # kErrorOk
          THEN [b |-> setLastError(B, L.err).b, err |-> L.err, ran |-> L.ran]
          ELSE [b |-> B, err |-> kErrorOk, ran |-> L.ran]

\* A loop that resets the pass zone only after the last run.
RECURSIVE passZoneLoopNoReset(_, _, _, _)
passZoneLoopNoReset(passes, i, failAt, zone) ==
  IF i > Len(passes) THEN zone
  ELSE LET z1 == [live |-> zone.live \cup {passes[i]},
                  atEntry |-> Append(zone.atEntry, zone.live)]
       IN IF i = failAt THEN z1
          ELSE passZoneLoopNoReset(passes, i + 1, failAt, z1)

\* _cbPassZone through the loop of runPasses from index i on: it is reset
\* before each run, and every run allocates in it.
RECURSIVE passZoneLoop(_, _, _, _)
passZoneLoop(passes, i, failAt, zone) ==
  IF i > Len(passes) THEN zone
  ELSE LET z0 == [zone EXCEPT !.live = {}]
           z1 == [live |-> z0.live \cup {passes[i]},
                  atEntry |-> Append(z0.atEntry, z0.live)]
       IN IF i = failAt THEN z1
          ELSE passZoneLoop(passes, i + 1, failAt, z1)

\* _cbPassZone after runPasses on the builder B: left alone when the latch
\* holds an error, else reset once more after the loop.
runPassesZone(B, passes, failAt, zone) ==
  IF B.lastError # kErrorOk THEN [zone EXCEPT !.atEntry = <<>>]
  ELSE [passZoneLoop(passes, 1, failAt, [zone EXCEPT !.atEntry = <<>>])
          EXCEPT !.live = {}]

\* The call runPasses() on builder 1; ret: the passes whose run was called,
\* in the order of the calls; given: failAt.
RunPasses(failAt) ==
  /\ fault = "none"
  /\ LET R == runPasses(CurB, cbPasses[1], failAt)
     IN ReturnsB(R, "runPasses", failAt, R.ran, <<>>)
  /\ cbPassZone' = runPassesZone(CurB, cbPasses[1], failAt, cbPassZone)
  /\ UNCHANGED <<cbPasses, passCb, destroyed, translated, cbNodeFlags>>

NextRun ==
  \/ \E this \in Builders, pass \in PassIds \cup {Null}, appendOk \in BOOLEAN :
       AddPass(this, pass, appendOk)
  \/ \E failAt \in 0..MaxPasses : RunPasses(failAt)

SpecRun == Init /\ [][NextRun]_vars

\* C22: run_passes with an Ok latch calls run on the registered passes in
\* registration order, each at most once; as soon as one pass returns an
\* error no later pass is run, that error is latched and returned; if every
\* pass returns Ok, run_passes returns Ok and the latch stays Ok.
C22_RunPasses ==
  (call.op = "runPasses" /\ pre.err = kErrorOk) =>
    LET list == pre.cbPasses[1]
        ran == call.ret
        failAt == call.given
    IN /\ IsPrefix(ran, list)
       /\ \A p \in PassIds :
            Cardinality({i \in 1..Len(ran) : ran[i] = p}) <= 1
       /\ failAt \in 1..Len(list) =>
            /\ Len(ran) = failAt
            /\ call.err = kErrorPass
            /\ lastError = kErrorPass
       /\ failAt \notin 1..Len(list) =>
            /\ ran = list
            /\ call.err = kErrorOk
            /\ lastError = kErrorOk
       /\ cbPasses = pre.cbPasses
       /\ Chain = pre.chain

\* C22 witness: of three registered passes the second one has failed.
C22_Witness ==
  /\ call.op = "runPasses"
  /\ pre.err = kErrorOk
  /\ Len(pre.cbPasses[1]) = 3
  /\ call.given = 2
  /\ Len(call.ret) = 2
  /\ lastError = kErrorPass

(***************************************************************************)
(* serialize into a recording emitter and into another CodeBuilder          *)
(* (SpecSer).                                                               *)
(***************************************************************************)
\* A CodeBuilder just constructed, during whose use m allocations succeed.
FreshB(m) ==
  [prev |-> [n \in NodeIds |-> Null], next |-> [n \in NodeIds |-> Null],
   first |-> Null, last |-> Null, cursor |-> Null, asserts |-> {},
   nNodes |-> 0, nodes |-> [n \in NodeIds |-> NoNode], fault |-> "none",
   lastError |-> kErrorOk, labelsCount |-> 0, cbLabels |-> <<>>,
   options |-> {}, inlineComment |-> NoText, op4 |-> NoOperand,
   op5 |-> NoOperand, opExtra |-> NoOperand, nodeFlags |-> {},
   allocOk |-> m]

\* CodeEmitter::setOp4 / setOp5 on the emitter D.
setOp4(D, op) == [D EXCEPT !.op4 = op, !.options = @ \cup {kOptionOp4}]
setOp5(D, op) == [D EXCEPT !.op5 = op, !.options = @ \cup {kOptionOp5}]

serializeNodeIntoNoOp4(D, r) ==
  LET D0 == [D EXCEPT !.inlineComment = r.inlineComment] IN
  IF r.type = "Inst"
  THEN LET D1 == [D0 EXCEPT !.options = r.options, !.opExtra = r.opExtra]
           D3 == IF r.opCount > 4 /\ r.opCount = 6
                 THEN setOp5(D1, r.ops[6]) ELSE D1
       IN emit(D3, r.instId, r.ops[1], r.ops[2], r.ops[3], r.ops[4], TRUE)
  ELSE IF r.type = "Data"
  THEN embed(D0, IF r.storage = "null" THEN NoText ELSE r.bytes, r.size)
  ELSE IF r.type = "Align" THEN align(D0, r.mode, r.alignment)
  ELSE IF r.type = "Comment" THEN comment(D0, r.inlineComment)
  ELSE Done(D0, kErrorOk)

\* The body of the loop of serialize for the node record r when dst is the
\* CodeBuilder D.
serializeNodeInto(D, r) ==
  LET D0 == [D EXCEPT !.inlineComment = r.inlineComment] IN
  IF r.type = "Inst"
  THEN LET D1 == [D0 EXCEPT !.options = r.options, !.opExtra = r.opExtra]
           D2 == IF r.opCount > 4 THEN setOp4(D1, r.ops[5]) ELSE D1
           D3 == IF r.opCount > 4 /\ r.opCount = 6
                 THEN setOp5(D2, r.ops[6]) ELSE D2
       IN emit(D3, r.instId, r.ops[1], r.ops[2], r.ops[3], r.ops[4], TRUE)
  ELSE IF r.type = "Data"
  THEN embed(D0, IF r.storage = "null" THEN NoText ELSE r.bytes, r.size)
  ELSE IF r.type = "Align" THEN align(D0, r.mode, r.alignment)
  ELSE IF r.type = "Comment" THEN comment(D0, r.inlineComment)
  ELSE Done(D0, kErrorOk)

\* The do-while loop of serialize entered with node_ = n when dst is the
\* CodeBuilder D.
RECURSIVE serializeIntoLoop(_, _, _, _)
serializeIntoLoop(B, n, D, fuel) ==
  LET R == serializeNodeInto(D, B.nodes[n])
  IN IF R.err # kErrorOk THEN R
     ELSE IF B.next[n] = Null THEN R
     ELSE IF fuel = 0 THEN [b |-> R.b, err |-> "hang"]
     ELSE serializeIntoLoop(B, B.next[n], R.b, fuel - 1)

\* CodeBuilder::serialize(dst) with dst the CodeBuilder D.
serializeInto(B, D) ==
  IF B.first = Null
  THEN {[b |-> D, err |-> "crash"], [b |-> D, err |-> Undef]}
  ELSE {serializeIntoLoop(B, B.first, D, MaxNodes)}

\* The node records of the list of the builder D, from first to last.
ListOf(D) ==
  LET chain == Walk(D.next, D.first, MaxNodes + 1)
  IN [i \in 1..Len(chain) |-> D.nodes[chain[i]]]

\* serialize(dst) with dst a CodeBuilder just constructed; ser.into is the
\* list of dst afterwards.
SerializeInto(m) ==
  /\ fault = "none"
  /\ ser' \in {[calls |-> <<>>, err |-> R.err, failed |-> 0,
                  into |-> ListOf(R.b)] :
                 R \in serializeInto(CurB, FreshB(m))}
  /\ UNCHANGED <<call, pre>>
  /\ UNCHANGED <<passVars, cbNodeFlags>>
  /\ UNCHANGED <<nNodes, nodes, linkPrev, linkNext, firstNode, lastNode,
                 cursor, asserts, fault, lastError, labelsCount, cbLabels,
                 options, inlineComment, op4, op5, opExtra, emitted>>

\* Allocations dst needs to take every node of the source with its comment.
DstAllocs == 2 * MaxNodes

NextSer ==
  \/ \E id \in InstIds, o \in EmitOperandInputs, m \in AllocChoices :
        /\ Len(emitted) < MaxEmits
        /\ Emit(id, o[1], o[2], o[3], o[4], TRUE, m)
  \/ \E d \in DataInputs, m \in AllocChoices :
        /\ Len(emitted) < MaxEmits
        /\ Embed(d[1], d[2], m)
  \/ Len(emitted) < MaxEmits /\ SetOp4("r4")
  \/ Len(emitted) < MaxEmits /\ SetOp5("r5")
  \/ Len(emitted) < MaxEmits /\ SetInlineComment("hi")
  \/ \E failAt \in 0..MaxNodes : Serialize(failAt)
  \/ \E m \in {1, DstAllocs} : SerializeInto(m)

SpecSer == Init /\ [][NextSer]_vars

\* ser holds what a serialize into the recording emitter did.
Recording == ser.err # "none" /\ "into" \notin DOMAIN ser
\* ser holds what a serialize into another CodeBuilder did.
IntoBuilder == "into" \in DOMAIN ser

\* C23: serialize stops at the first non-Ok result from the destination
\* emitter: no destination operation is invoked for any node after the
\* failing one and that error is returned; serialize never changes the
\* source builder's node list, cursor, label map or error latch, whether it
\* succeeds or fails.
C23_SerializeStops ==
  /\ [](Recording =>
          /\ ser.err = kErrorDst =>
               /\ ser.failed >= 1
               /\ Len(ser.calls) = ser.failed
               /\ IsPrefix(Proj(ser.calls), Recorded)
          /\ ser.err # kErrorDst => ser.failed = 0
          /\ ser.err = kErrorOk => Proj(ser.calls) = Recorded)
  /\ [][ser'.err # "none" =>
          UNCHANGED <<nNodes, nodes, linkPrev, linkNext, firstNode, lastNode,
                      cursor, cbLabels, labelsCount, lastError>>]_vars

\* C23 witness: the destination has failed on the first of two nodes.
C23_Witness ==
  /\ Recording
  /\ ser.err = kErrorDst
  /\ ser.failed = 1
  /\ Len(ser.calls) = 1
  /\ Len(Chain) = 2
  /\ Len(Recorded) = 2

\* What operand slot index (from 0) of the node record r holds: nothing
\* beyond the capacity of the node.
Slot(r, index) == IF index < r.opCapacity THEN r.ops[index + 1] ELSE NoOperand

\* C24: for every Inst node, serialize first sets the destination's options
\* and extra operand from the node, sets the destination's op4 from operand
\* slot 4 when the node's operand count is at least 5 and its op5 from slot 5
\* when the count is at least 6, and then calls the destination's emit with
\* the node's instruction id and operands 0..3; serializing into another
\* builder therefore reproduces an instruction node with the same id,
\* operand count and operands 0..5.
C24_SerializeInst ==
  /\ (Recording /\ ser.err \in {kErrorOk, kErrorDst}) =>
       \A j \in 1..Len(ser.calls) :
         LET r == nodes[Chain[j]]
             c == ser.calls[j]
         IN r.type = "Inst" =>
              /\ c.op = "emit"
              /\ c.a = <<r.instId, r.ops[1], r.ops[2], r.ops[3], r.ops[4]>>
              /\ c.t.options = r.options
              /\ c.t.opExtra = r.opExtra
              /\ c.t.op4 = (IF r.opCount >= 5 THEN r.ops[5] ELSE Unset)
              /\ c.t.op5 = (IF r.opCount >= 6 THEN r.ops[6] ELSE Unset)
  /\ (IntoBuilder /\ ser.err = kErrorOk) =>
       /\ Len(ser.into) = Len(Chain)
       /\ \A j \in 1..Len(Chain) :
            LET r == nodes[Chain[j]]
                d == ser.into[j]
            IN r.type = "Inst" =>
                 /\ d.type = "Inst"
                 /\ d.instId = r.instId
                 /\ d.opCount = r.opCount
                 /\ \A k \in 0..5 : Slot(d, k) = Slot(r, k)

\* C24 witness: a list holding an instruction of six operands and one of two
\* has been serialized into another builder.
C24_Witness ==
  /\ IntoBuilder
  /\ ser.err = kErrorOk
  /\ Len(ser.into) = 2
  /\ \E j \in 1..2 : nodes[Chain[j]].type = "Inst" /\ ser.into[j].opCount = 6
                    /\ Slot(ser.into[j], 5) = "r5"
  /\ \E j \in 1..2 : nodes[Chain[j]].type = "Inst" /\ ser.into[j].opCount = 2

(***************************************************************************)
(* X86SseToAvxPass::run on the list of builder 1 (SpecSse).  The           *)
(* instruction metadata (X86Inst) and the operands (Operand, X86Reg) are    *)
(* reduced to the instructions and operands below.                          *)
(***************************************************************************)
\* X86Inst::SseData::kAvxConv*
kAvxConvNone == "None"
kAvxConvMove == "Move"
kAvxConvMoveIfMem == "MoveIfMem"
kAvxConvExtend == "Extend"
kAvxConvBlend == "Blend"

\* Instruction ids: an instruction that is not SSE, one SSE instruction per
\* conversion mode, and the AVX instruction of each, avxConvDelta further.
kIdAdd == 10
kIdMovaps == 20
kIdMovss == 21
kIdAddps == 22
kIdBlendvps == 23
kIdExtrq == 24
kIdCvtpi2ps == 25
AvxDelta == 100

SseIds == {kIdMovaps, kIdMovss, kIdAddps, kIdBlendvps, kIdExtrq, kIdCvtpi2ps}

\* X86Inst::isDefinedId
isDefinedId(instId) ==
  instId \in {kIdAdd} \cup SseIds \cup {i + AvxDelta : i \in SseIds}

\* X86Inst::isSseFamily of a defined instruction
isSseFamily(instId) == instId \in SseIds

\* X86Inst::getSseData of an SSE instruction
getSseData(instId) ==
  [avxConvMode |-> IF instId = kIdMovaps THEN kAvxConvMove
                   ELSE IF instId = kIdMovss THEN kAvxConvMoveIfMem
                   ELSE IF instId = kIdBlendvps THEN kAvxConvBlend
                   ELSE IF instId = kIdExtrq THEN kAvxConvNone
                   ELSE kAvxConvExtend,
   avxConvDelta |-> AvxDelta]

\* Operands: XMM registers, an MMX register, general-purpose registers and a
\* memory operand.
XmmRegs == {"xmm0", "xmm1", "xmm2"}
MmRegs == {"mm0"}
GpRegs == {"r0", "r1", "r2", "r3", "r4", "r5"}
MemOps == {"m128"}

\* Operand::isReg, Reg::getType, Operand::isMem
isReg(op) == op \in XmmRegs \cup MmRegs \cup GpRegs
getType(op) ==
  IF op \in XmmRegs THEN "Xmm" ELSE IF op \in MmRegs THEN "Mm" ELSE "Gp"
isMem(op) == op \in MemOps

kProbeMmx == "Mm"
kProbeXmm == "Xmm"

\* X86SseToAvxPass::probeRegs: the types of the registers among the first
\* opCount operands of the instruction r.
probeRegs(r) ==
  {getType(r.ops[i]) : i \in {j \in 1..r.opCount : isReg(r.ops[j])}}

\* A test for memory operands that finds none.
hasMemOpNever(r) == FALSE

\* CBInst::hasMemOp
hasMemOp(r) == \E i \in 1..r.opCount : isMem(r.ops[i])

\* The pass whose run is modelled.
SsePass == 1

\* A probe loop that collects a candidate whatever its operand count.
RECURSIVE probeLoopAnyCount(_, _, _, _)
probeLoopAnyCount(B, n, insts, fuel) ==
  IF n = Null THEN [outcome |-> "collected", insts |-> insts]
  ELSE IF fuel = 0 THEN [outcome |-> "hang", insts |-> insts]
  ELSE
    LET r == B.nodes[n]
        go == probeLoopAnyCount(B, B.next[n], Append(insts, n), fuel - 1)
        hang == [outcome |-> "hang", insts |-> insts]
        abort == [outcome |-> "abort", insts |-> insts]
    IN IF r.type # "Inst" THEN probeLoopAnyCount(B, B.next[n], insts, fuel - 1)
       ELSE IF ~isDefinedId(r.instId) THEN hang
       ELSE IF ~isSseFamily(r.instId) THEN hang
       ELSE IF kProbeXmm \notin probeRegs(r) THEN hang
       ELSE IF kProbeMmx \in probeRegs(r) THEN abort
       ELSE IF getSseData(r.instId).avxConvMode = kAvxConvNone THEN abort
       ELSE go

\* The probe loop entered with node_ = n and the instructions collected so
\* far in insts: "hang" when the loop never ends (continue leaves node_
\* where it is), "abort" when run returns from within it, "collected" when
\* it reaches the end of the list.
RECURSIVE probeLoop(_, _, _, _)
probeLoop(B, n, insts, fuel) ==
  IF n = Null THEN [outcome |-> "collected", insts |-> insts]
  ELSE IF fuel = 0 THEN [outcome |-> "hang", insts |-> insts]
  ELSE
    LET r == B.nodes[n]
        go == probeLoop(B, B.next[n], Append(insts, n), fuel - 1)
        hang == [outcome |-> "hang", insts |-> insts]
        abort == [outcome |-> "abort", insts |-> insts]
    IN IF r.type # "Inst" THEN probeLoop(B, B.next[n], insts, fuel - 1)
       ELSE IF ~isDefinedId(r.instId) THEN hang
       ELSE IF ~isSseFamily(r.instId) THEN hang
       ELSE IF kProbeXmm \notin probeRegs(r) THEN hang
       ELSE IF kProbeMmx \in probeRegs(r) THEN abort
       ELSE LET mode == getSseData(r.instId).avxConvMode
            IN IF mode = kAvxConvNone THEN abort
               ELSE IF mode = kAvxConvMove THEN go
               ELSE IF mode \in {kAvxConvMoveIfMem, kAvxConvExtend}
               THEN IF r.opCount < 1 \/ r.opCount > 3 THEN abort ELSE go
               ELSE IF r.opCount < 2 \/ r.opCount > 3 THEN abort ELSE go

\* The loop at Extend: setOp(i, getOp(i - 1)) for i from opCount down to 1.
RECURSIVE extendLoop(_, _)
extendLoop(r, i) ==
  IF i = 0 THEN r ELSE extendLoop(setOp(r, i, r.ops[i]), i - 1)

\* A setInstId that leaves the id as it is.
setInstIdKeep(r, instId) == r

\* CBInst::setOpCount and CBInst::setInstId (a uint16_t field)
setOpCount(r, opCount) == [r EXCEPT !.opCount = opCount]
setInstId(r, instId) == [r EXCEPT !.instId = instId % 65536]

\* An Extend that counts one operand more without shifting any.
extendNoShift(r, opCount) == setOpCount(r, opCount + 1)

\* Extend: of the instruction r whose operand count is taken as opCount.
extend(r, opCount) == setOpCount(extendLoop(r, opCount), opCount + 1)

\* A patch that treats Blend as Extend, without the implicit xmm0.
patchBlendAsExtend(r) ==
  LET sseData == getSseData(r.instId)
      mode == sseData.avxConvMode
      r1 == IF mode = kAvxConvMoveIfMem
            THEN IF hasMemOp(r) THEN r ELSE extend(r, r.opCount)
            ELSE IF mode \in {kAvxConvBlend, kAvxConvExtend}
            THEN extend(r, r.opCount)
            ELSE r
  IN setInstId(r1, r.instId + sseData.avxConvDelta)

\* The body of the second loop: the instruction r patched.
patch(r) ==
  LET sseData == getSseData(r.instId)
      mode == sseData.avxConvMode
      r1 == IF mode = kAvxConvMoveIfMem
            THEN IF hasMemOp(r) THEN r ELSE extend(r, r.opCount)
            ELSE IF mode = kAvxConvBlend
            THEN IF r.opCount = 2
                 THEN extend([r EXCEPT !.ops[3] = "xmm0"], 3)
                 ELSE extend(r, r.opCount)
            ELSE IF mode = kAvxConvExtend THEN extend(r, r.opCount)
            ELSE r
  IN setInstId(r1, r.instId + sseData.avxConvDelta)

\* The second loop: the instructions of insts patched in the order in which
\* they were collected.
RECURSIVE patchLoop(_, _)
patchLoop(B, insts) ==
  IF insts = <<>> THEN B
  ELSE patchLoop([B EXCEPT !.nodes[Head(insts)] = patch(@)], Tail(insts))

\* A run that patches what it has collected when the probe aborts.
runAbortPatches(B, initOk) ==
  LET P == probeLoop(B, B.first, <<>>, MaxNodes)
  IN IF ~initOk
     THEN [b |-> B, set |-> FALSE, err |-> kErrorNoHeapMemory,
           outcome |-> "error", insts |-> <<>>]
     ELSE IF P.outcome = "hang"
     THEN [b |-> B, set |-> FALSE, err |-> "hang", outcome |-> "hang",
           insts |-> P.insts]
     ELSE [b |-> patchLoop(B, P.insts), set |-> TRUE, err |-> kErrorOk,
           outcome |-> IF P.outcome = "abort" THEN "abort" ELSE "done",
           insts |-> P.insts]

\* The assertions of getOp, setOp and setOpCount that fail at Extend for the
\* instruction r, its operand count taken as opCount.
extendAsserts(r, opCount) ==
  {"getOp" : i \in {j \in 1..opCount : ~(j - 1 < r.opCapacity)}}
    \cup {"setOp" : i \in {j \in 1..opCount : ~(j < r.opCapacity)}}
    \cup (IF opCount + 1 <= r.opCapacity THEN {} ELSE {"setOpCount"})

\* The assertions that fail while the second loop patches the instruction
\* r; "opArray" stands for a write of _opArray[opCount] beyond the capacity.
patchAsserts(r) ==
  LET mode == getSseData(r.instId).avxConvMode
  IN IF mode = kAvxConvMoveIfMem
     THEN IF hasMemOp(r) THEN {} ELSE extendAsserts(r, r.opCount)
     ELSE IF mode = kAvxConvBlend
     THEN IF r.opCount = 2
          THEN (IF 2 < r.opCapacity THEN {} ELSE {"opArray"})
                 \cup extendAsserts(r, 3)
          ELSE extendAsserts(r, r.opCount)
     ELSE IF mode = kAvxConvExtend THEN extendAsserts(r, r.opCount)
     ELSE {}

\* The assertions that fail in a run with the result R on the builder B.
runAsserts(B, R) ==
  IF R.outcome = "done"
  THEN UNION {patchAsserts(B.nodes[R.insts[i]]) : i \in 1..Len(R.insts)}
  ELSE {}

\* X86SseToAvxPass::run on the list of the builder B; initOk: insts.init and
\* insts.append succeed.  outcome: "error" (an Error is returned), "hang",
\* "abort" (kErrorOk returned from the probe loop) or "done".
run(B, initOk) ==
  LET P == probeLoop(B, B.first, <<>>, MaxNodes)
  IN IF ~initOk
     THEN [b |-> B, set |-> FALSE, err |-> kErrorNoHeapMemory,
           outcome |-> "error", insts |-> <<>>]
     ELSE IF P.outcome = "hang"
     THEN [b |-> B, set |-> FALSE, err |-> "hang", outcome |-> "hang",
           insts |-> P.insts]
     ELSE IF P.outcome = "abort"
     THEN [b |-> B, set |-> FALSE, err |-> kErrorOk, outcome |-> "abort",
           insts |-> P.insts]
     ELSE [b |-> patchLoop(B, P.insts), set |-> TRUE, err |-> kErrorOk,
           outcome |-> "done", insts |-> P.insts]

\* The call run(zone) of the pass SsePass, registered with builder 1.  ret:
\* the outcome; given: the instructions collected by the probe loop.  A run
\* that never returns leaves the builder out of reach: the loop that does not
\* advance has no side effect, so a build either spins in it ("hang") or,
\* entitled to assume that it ends, does anything else ("undefined").
Run(initOk) ==
  /\ fault = "none"
  /\ LET R == run(CurB, initOk)
     IN /\ nodes' = R.b.nodes
        /\ translated' = IF R.set THEN TRUE ELSE translated
        /\ fault' \in IF R.outcome = "hang" THEN {"hang", "undefined"}
                                            ELSE {fault}
        /\ call' = [Call("run", Null, Null, R.outcome, R.err)
                      EXCEPT !.given = R.insts]
        /\ asserts' = asserts \cup runAsserts(CurB, R)
  /\ pre' = Snapshot
  /\ ser' = NoSer
  /\ UNCHANGED <<nNodes, linkPrev, linkNext, firstNode, lastNode, cursor,
                 lastError, labelsCount, cbLabels, options,
                 inlineComment, op4, op5, opExtra, emitted>>
  /\ UNCHANGED <<cbPasses, passCb, destroyed, cbPassZone, cbNodeFlags>>

\* Instructions per list in SpecSse.
MaxSseNodes == 3

\* The instructions emitted: every conversion mode with its legal operand
\* counts and with counts outside them, a memory operand, an MMX operand, an
\* instruction without XMM register and one that is not SSE.
SseInputs ==
  {<<kIdAddps, "xmm0", NoOperand, NoOperand, NoOperand>>,
   <<kIdAddps, "xmm0", "xmm1", NoOperand, NoOperand>>,
   <<kIdAddps, "xmm0", "xmm1", "xmm2", NoOperand>>,
   <<kIdAddps, "xmm0", "xmm1", "xmm2", "r3">>,
   <<kIdBlendvps, "xmm1", NoOperand, NoOperand, NoOperand>>,
   <<kIdBlendvps, "xmm1", "xmm2", NoOperand, NoOperand>>,
   <<kIdBlendvps, "xmm1", "m128", "xmm2", NoOperand>>,
   <<kIdMovaps, "xmm0", "xmm1", NoOperand, NoOperand>>,
   <<kIdMovaps, "xmm0", "xmm1", "xmm2", "r3">>,
   <<kIdMovss, "xmm0", "m128", NoOperand, NoOperand>>,
   <<kIdMovss, "xmm0", "xmm1", NoOperand, NoOperand>>,
   <<kIdMovss, "xmm0", "xmm1", "xmm2", "r3">>,
   <<kIdExtrq, "xmm0", "xmm1", NoOperand, NoOperand>>,
   <<kIdCvtpi2ps, "xmm0", "mm0", NoOperand, NoOperand>>,
   <<kIdAddps, "r0", "m128", NoOperand, NoOperand>>,
   <<kIdAdd, "r0", "r1", NoOperand, NoOperand>>}

NextSse ==
  \/ passCb[SsePass] = Null /\ AddPass(1, SsePass, TRUE)
  \/ \E i \in SseInputs :
        /\ Len(emitted) < MaxSseNodes
        /\ Emit(i[1], i[2], i[3], i[4], i[5], TRUE, MaxAllocs)
  \/ \E d \in DataInputs :
        /\ Len(emitted) < MaxSseNodes
        /\ Embed(d[1], d[2], MaxAllocs)
  \/ \E initOk \in BOOLEAN : passCb[SsePass] = 1 /\ Run(initOk)

SpecSse == Init /\ [][NextSse]_vars

\* The instruction r is a candidate: a defined SSE instruction that uses
\* an XMM register.
Candidate(r) ==
  /\ r.type = "Inst"
  /\ isDefinedId(r.instId)
  /\ isSseFamily(r.instId)
  /\ kProbeXmm \in probeRegs(r)

\* The candidate r makes the pass abort.
Aborting(r) ==
  \/ kProbeMmx \in probeRegs(r)
  \/ getSseData(r.instId).avxConvMode = kAvxConvNone
  \/ /\ getSseData(r.instId).avxConvMode \in {kAvxConvMoveIfMem, kAvxConvExtend}
     /\ r.opCount \notin 1..3
  \/ /\ getSseData(r.instId).avxConvMode = kAvxConvBlend
     /\ r.opCount \notin 2..3

\* The last operation was a run of the pass with the given outcome.
Ran(outcome) == call.op = "run" /\ call.ret = outcome

\* C25: a run of the SSE-to-AVX pass aborts during the probe exactly when,
\* every instruction before it being a good candidate, it meets a candidate
\* that references an MMX register, has conversion mode None or has an
\* operand count outside the range of its mode; the run then returns Ok, no
\* node has been changed and _translated is what it was (false when the pass
\* had not run before).
C25_AbortKeeps ==
  /\ Ran("abort") =>
       /\ call.err = kErrorOk
       /\ nodes = pre.nodes
       /\ translated = pre.translated
       /\ \E i \in 1..Len(pre.chain) :
             /\ Candidate(pre.nodes[pre.chain[i]])
             /\ Aborting(pre.nodes[pre.chain[i]])
  /\ (call.op = "run" /\ call.ret \in {"abort", "done"}) =>
       (Ran("abort") <=>
          \E i \in 1..Len(pre.chain) :
             Candidate(pre.nodes[pre.chain[i]])
               /\ Aborting(pre.nodes[pre.chain[i]]))

\* A run has aborted on a list that holds a good candidate before the
\* aborting one, the pass not having run before.
C25_Witness ==
  /\ Ran("abort")
  /\ ~pre.translated /\ ~translated
  /\ Len(call.given) = 1
  /\ Len(pre.chain) = 2
  /\ kProbeMmx \in probeRegs(nodes[pre.chain[2]])

\* The instructions collected by the last run, and the conversion mode of
\* one of them as the run found it.
Collected ==
  IF call.op = "run" THEN {call.given[i] : i \in 1..Len(call.given)} ELSE {}
ModeOf(n) == getSseData(pre.nodes[n].instId).avxConvMode

\* new has one operand more than old: old's slot 0 twice, then old's others.
Reshaped(old, new) ==
  /\ new.opCount = old.opCount + 1
  /\ new.ops[1] = old.ops[1]
  /\ \A i \in 1..old.opCount : new.ops[i + 1] = old.ops[i]

\* C26: after a completed run, a collected instruction of mode Extend that
\* had c operands a0..a(c-1), c in 1..3, has c + 1 operands
\* a0, a0, a1, ..., a(c-1).
C26_Extend ==
  Ran("done") =>
    \A n \in Collected :
       (ModeOf(n) = kAvxConvExtend /\ pre.nodes[n].opCount \in 1..3) =>
          Reshaped(pre.nodes[n], nodes[n])

\* addps xmm0, xmm1 has become xmm0, xmm0, xmm1, and an instruction of three
\* operands has been extended in the same run.
C26_Witness ==
  /\ Ran("done")
  /\ \E n \in Collected :
        /\ pre.nodes[n].instId = kIdAddps
        /\ pre.nodes[n].opCount = 2
        /\ pre.nodes[n].ops[1] = "xmm0" /\ pre.nodes[n].ops[2] = "xmm1"
        /\ nodes[n].opCount = 3
        /\ nodes[n].ops[1] = "xmm0" /\ nodes[n].ops[2] = "xmm0"
        /\ nodes[n].ops[3] = "xmm1"
  /\ \E n \in Collected :
        /\ pre.nodes[n].instId = kIdAddps
        /\ pre.nodes[n].opCount = 3 /\ nodes[n].opCount = 4

\* C27: after a completed run, a collected instruction of mode Blend that
\* had the two operands a, b has the four operands a, a, b, xmm0, and one
\* that had the three operands a, b, c has the four operands a, a, b, c.
C27_Blend ==
  Ran("done") =>
    \A n \in Collected :
       ModeOf(n) = kAvxConvBlend =>
          LET old == pre.nodes[n]
              new == nodes[n]
          IN /\ old.opCount \in 2..3
             /\ new.opCount = 4
             /\ new.ops[1] = old.ops[1]
             /\ new.ops[2] = old.ops[1]
             /\ new.ops[3] = old.ops[2]
             /\ new.ops[4] = IF old.opCount = 2 THEN "xmm0" ELSE old.ops[3]

\* blendvps xmm1, xmm2 has become xmm1, xmm1, xmm2, xmm0, and a blend of
\* three operands has been patched in the same run.
C27_Witness ==
  /\ Ran("done")
  /\ \E n \in Collected :
        /\ pre.nodes[n].instId = kIdBlendvps
        /\ pre.nodes[n].opCount = 2
        /\ pre.nodes[n].ops[1] = "xmm1" /\ pre.nodes[n].ops[2] = "xmm2"
        /\ nodes[n].opCount = 4
        /\ nodes[n].ops[1] = "xmm1" /\ nodes[n].ops[2] = "xmm1"
        /\ nodes[n].ops[3] = "xmm2" /\ nodes[n].ops[4] = "xmm0"
  /\ \E n \in Collected :
        /\ pre.nodes[n].instId = kIdBlendvps
        /\ pre.nodes[n].opCount = 3
        /\ nodes[n].ops[4] = "xmm2"

\* C28: after a completed run, a collected instruction of mode Move, and one
\* of mode MoveIfMem with a memory operand among its counted operands, has
\* the operand count and the operands it had; one of mode MoveIfMem without
\* memory operand is reshaped as in mode Extend.
C28_Move ==
  Ran("done") =>
    \A n \in Collected :
       LET old == pre.nodes[n]
           new == nodes[n]
           mem == \E i \in 1..old.opCount : isMem(old.ops[i])
       IN /\ (ModeOf(n) = kAvxConvMove \/ (ModeOf(n) = kAvxConvMoveIfMem /\ mem))
               => (new.opCount = old.opCount /\ new.ops = old.ops)
          /\ (ModeOf(n) = kAvxConvMoveIfMem /\ ~mem) => Reshaped(old, new)

\* One run has patched a MoveIfMem instruction with a memory operand, one
\* without, and a Move instruction of four operands.
C28_Witness ==
  /\ Ran("done")
  /\ \E n \in Collected :
        /\ ModeOf(n) = kAvxConvMoveIfMem
        /\ isMem(pre.nodes[n].ops[2])
        /\ nodes[n].instId = kIdMovss + AvxDelta
  /\ \E n \in Collected :
        /\ ModeOf(n) = kAvxConvMoveIfMem
        /\ pre.nodes[n].opCount = 2 /\ nodes[n].opCount = 3
  /\ \E n \in Collected :
        /\ ModeOf(n) = kAvxConvMove
        /\ pre.nodes[n].opCount = 4
        /\ nodes[n].instId = kIdMovaps + AvxDelta

\* C29: after a completed run, the instructions collected are the candidates
\* of the list, each once; the id of each is its old id plus the
\* avxConvDelta of that instruction; _translated is true; every other node
\* is what it was; and the list is in the order it was in.
C29_Delta ==
  Ran("done") =>
    /\ call.err = kErrorOk
    /\ Collected = {n \in Range(pre.chain) : Candidate(pre.nodes[n])}
    /\ Cardinality(Collected) = Len(call.given)
    /\ \A n \in Collected :
          nodes[n].instId
            = pre.nodes[n].instId + getSseData(pre.nodes[n].instId).avxConvDelta
    /\ translated
    /\ \A n \in NodeIds \ Collected : nodes[n] = pre.nodes[n]
    /\ Chain = pre.chain
    /\ firstNode = pre.first /\ lastNode = pre.last /\ cursor = pre.cursor

\* A run has patched two instructions of different modes and passed over
\* the data node between them.
C29_Witness ==
  /\ Ran("done")
  /\ ~pre.translated
  /\ Len(call.given) = 2
  /\ ModeOf(call.given[1]) # ModeOf(call.given[2])
  /\ Len(pre.chain) = 3
  /\ nodes[pre.chain[2]].type = "Data"

\* C30: a run of the pass entered with _translated true returns Ok and
\* leaves every node as it was.
C30_ShortCircuit ==
  (call.op = "run" /\ pre.translated) =>
     (call.err = kErrorOk /\ nodes = pre.nodes)

(***************************************************************************)
(* The error latch across emission and runPasses (SpecLatch): bind of a     *)
(* label the builder does not own and a failing allocation set the latch.   *)
(***************************************************************************)
NextLatch ==
  \/ \E pass \in PassIds : AddPass(1, pass, TRUE)
  \/ \E id \in InstIds, o \in OperandInputs, m \in {0, MaxAllocs} :
        Emit(id, o[1], o[2], o[3], o[4], TRUE, m)
  \/ Bind(0, MaxAllocs)
  \/ \E m \in {0, MaxAllocs} : Align(kAlignCode, 16, m)
  \/ \E text \in TextInputs : Comment(text, MaxAllocs)
  \/ \E failAt \in 0..MaxPasses : RunPasses(failAt)

SpecLatch == Init /\ [][NextLatch]_vars

\* C31: an emission method or runPasses called with the latch holding an
\* error E returns E and leaves the latch at E, so that the first error is
\* the one every later call returns.
C31_LatchKeeps ==
  (call.op \in EmissionOps \cup {"runPasses"} /\ pre.err # kErrorOk) =>
     (call.err = pre.err /\ lastError = pre.err)

\* C37: runPasses called with the latch holding an error returns that error
\* without calling run on any pass, and the node list, the nodes, the pass
\* lists, the owners of the passes and the latch are what they were.
C37_RunPassesLatched ==
  (call.op = "runPasses" /\ pre.err # kErrorOk) =>
     /\ call.err = pre.err
     /\ call.ret = <<>>
     /\ lastError = pre.err
     /\ Chain = pre.chain
     /\ nodes = pre.nodes
     /\ cursor = pre.cursor
     /\ cbPasses = pre.cbPasses
     /\ passCb = pre.passCb

\* runPasses has been called with a latched error, two passes registered, a
\* node in the list and a pass set to fail.
C37_Witness ==
  /\ call.op = "runPasses"
  /\ pre.err = kErrorInvalidLabel
  /\ Len(pre.cbPasses[1]) >= 2
  /\ call.given = 1
  /\ Len(pre.chain) >= 1
  /\ call.err = kErrorInvalidLabel

(***************************************************************************)
(* Assertions of the list operations (SpecList).                            *)
(***************************************************************************)
\* C33: removeNodes(first, last) on a contiguous run of two or more nodes of
\* the list, the run that ends at the list's last node included, fails no
\* assertion.
C33_RemoveRangeAsserts ==
  (call.op = "removeNodes" /\ call.node # call.ref) =>
     "removeNodes.next" \notin asserts

(***************************************************************************)
(* The list under the emission calls (Spec).                                *)
(***************************************************************************)
\* C34: after any sequence of emission calls, bind and embedConstPool called
\* again with the same label included, addNode has never been handed a node
\* that is linked, no node occurs twice in the list, and the list is a
\* well-formed chain that ends.
C34_NoRelink ==
  /\ "addNode" \notin asserts
  /\ \A i, j \in 1..Len(Chain) : Chain[i] = Chain[j] => i = j
  /\ Len(Chain) <= nNodes
  /\ ChainBack = Reverse(Chain)
  /\ EndsAgree

(***************************************************************************)
(* The data node of embedConstPool (SpecLabels).                            *)
(***************************************************************************)
\* C35: for a pool of any size, the sizes beyond kInlineBufferSize included,
\* an embedConstPool that returns Ok has created a Data node with storage
\* for pool.size bytes, has handed that storage, never null, to pool.fill,
\* and the node's data is the pool's content.
C35_PoolStorage ==
  (call.op = "embedConstPool" /\ pre.err = kErrorOk /\ call.err = kErrorOk) =>
     LET pool == LastEmitted.a[2]
         d == nodes[nNodes]
     IN /\ fault # "nullWrite"
        /\ d.type = "Data"
        /\ d.storage # "null"
        /\ d.size = pool.size
        /\ d.bytes = pool.bytes

(***************************************************************************)
(* Termination and assertions of X86SseToAvxPass::run.                      *)
(***************************************************************************)
\* C32: run returns for every finite list, whatever nodes it holds: the
\* probe loop reaches the end of the list or an abort.
C32_RunReturns ==
  call.op = "run" => (call.ret \in {"error", "abort", "done"} /\ fault = "none")

\* Instructions per list in SpecSseOps.
MaxWideNodes == 2

\* SpecSseOps: the pass on instructions of 0..6 operands, the fifth and the
\* sixth set through setOp4 / setOp5 before the emit.
NextSseOps ==
  \/ passCb[SsePass] = Null /\ AddPass(1, SsePass, TRUE)
  \/ \E i \in SseInputs :
        /\ Len(emitted) < MaxWideNodes
        /\ Emit(i[1], i[2], i[3], i[4], i[5], TRUE, MaxAllocs)
  \/ Len(emitted) < MaxWideNodes /\ SetOp4("xmm2")
  \/ Len(emitted) < MaxWideNodes /\ SetOp5("r5")
  \/ passCb[SsePass] = 1 /\ Run(TRUE)

SpecSseOps == Init /\ [][NextSseOps]_vars

\* C39: for instructions created by emit with 0..6 operands and any
\* conversion mode, no assertion of getOp, setOp or setOpCount fails in a
\* run of the pass, no operand is written at or beyond the capacity, and the
\* operand count of every instruction stays within its capacity.
C39_PassAsserts ==
  /\ asserts \cap {"getOp", "setOp", "setOpCount", "opArray"} = {}
  /\ \A n \in 1..nNodes :
        nodes[n].type = "Inst" => nodes[n].opCount <= nodes[n].opCapacity

\* A run has extended an instruction of three operands to the base capacity
\* and has passed over a collected Move instruction of six operands.
C39_Witness ==
  /\ Ran("done")
  /\ \E n \in Collected :
        /\ ModeOf(n) \in {kAvxConvExtend, kAvxConvMoveIfMem, kAvxConvBlend}
        /\ pre.nodes[n].opCount = 3
        /\ nodes[n].opCount = kBaseOpCapacity
        /\ nodes[n].opCapacity = kBaseOpCapacity
  /\ \E n \in Collected :
        /\ ModeOf(n) = kAvxConvMove
        /\ nodes[n].opCount = 6

(***************************************************************************)
(* The pass zone in runPasses (SpecRun).                                    *)
(***************************************************************************)
\* C36: in a runPasses that runs passes, the pass zone holds nothing at the
\* entry of each pass's run, whatever the passes before it allocated, and it
\* holds nothing when runPasses returns, whether all passes succeeded or one
\* failed.
C36_ScratchReset ==
  (call.op = "runPasses" /\ pre.err = kErrorOk) =>
     /\ Len(cbPassZone.atEntry) = Len(call.ret)
     /\ \A i \in 1..Len(cbPassZone.atEntry) : cbPassZone.atEntry[i] = {}
     /\ cbPassZone.live = {}

\* Three passes have been run and the last one has failed.
C36_Witness ==
  /\ call.op = "runPasses"
  /\ pre.err = kErrorOk
  /\ Len(call.ret) = 3
  /\ call.err = kErrorPass
  /\ Len(cbPassZone.atEntry) = 3

(***************************************************************************)
(* Detaching a builder that has passes (SpecDetach).                        *)
(***************************************************************************)
\* CodeBuilder::onDetach on the pass registry: the list of the builder this
\* is reset; no pass is visited, so every _cb stays what it was.
onDetach(S, this) ==
  [lists |-> [S.lists EXCEPT ![this] = <<>>], cb |-> S.cb]

\* The event onDetach of the builder this.  For builder 1, whose nodes and
\* labels are modelled, the zones and the list fields are reset as well, and
\* the emitter's part (Base::onDetach) clears the latch and the pending
\* instruction state.
OnDetach(this) ==
  /\ fault = "none"
  /\ LET S == onDetach(CurPasses, this)
     IN /\ cbPasses' = S.lists
        /\ passCb' = S.cb
  /\ IF this = 1
     THEN /\ nNodes' = 0
          /\ nodes' = [n \in NodeIds |-> NoNode]
          /\ linkPrev' = [n \in NodeIds |-> Null]
          /\ linkNext' = [n \in NodeIds |-> Null]
          /\ firstNode' = Null
          /\ lastNode' = Null
          /\ cursor' = Null
          /\ cbLabels' = <<>>
          /\ cbPassZone' = [cbPassZone EXCEPT !.live = {}]
          /\ cbNodeFlags' = {}
          /\ lastError' = kErrorOk
          /\ options' = {}
          /\ inlineComment' = NoText
          /\ op4' = NoOperand
          /\ op5' = NoOperand
          /\ opExtra' = NoOperand
     ELSE UNCHANGED <<nNodes, nodes, linkPrev, linkNext, firstNode, lastNode,
                      cursor, cbLabels, cbPassZone, cbNodeFlags, lastError,
                      options, inlineComment, op4, op5, opExtra>>
  /\ call' = Call("onDetach", Null, this, Null, kErrorOk)
  /\ pre' = Snapshot
  /\ ser' = NoSer
  /\ UNCHANGED <<asserts, fault, labelsCount, emitted, destroyed,
                 translated>>

NextDetach ==
  \/ \E this \in Builders, pass \in LivePasses, appendOk \in BOOLEAN :
       AddPass(this, pass, appendOk)
  \/ \E this \in Builders, pass \in LivePasses : DeletePass(this, pass)
  \/ \E this \in Builders : OnDetach(this)
  \/ RunPasses(0)

SpecDetach == Init /\ [][NextDetach]_vars

\* C38: through addPass, deletePass and onDetach, a pass records a builder as
\* its owner exactly when it is in that builder's pass list, no pass is twice
\* in a list, and no deletePass fails its assertion.
C38_OwnerIffListed ==
  /\ \A p \in PassIds, b \in Builders :
       (passCb[p] = b) <=> (\E i \in 1..Len(cbPasses[b]) : cbPasses[b][i] = p)
  /\ \A b \in Builders : \A i, j \in 1..Len(cbPasses[b]) :
       cbPasses[b][i] = cbPasses[b][j] => i = j
  /\ "deletePass: index != kInvalidIndex" \notin asserts

(***************************************************************************)
(* The flags of new nodes under a _nodeFlags template (SpecFlags).          *)
(***************************************************************************)
\* CBConstPool::CBConstPool: a CBLabel whose type is then set, to whose
\* flags kFlagIsData is added and from whose flags kFlagIsCode and
\* kFlagHasNoEffect are cleared; the pool is empty.
CBConstPool(id, nodeFlags) ==
  LET L == CBLabel(id, nodeFlags)
  IN [type |-> "ConstPool",
      flags |-> (L.flags \cup {kFlagIsData}) \ {kFlagIsCode, kFlagHasNoEffect},
      position |-> L.position, passData |-> L.passData,
      inlineComment |-> L.inlineComment, id |-> L.id, block |-> L.block,
      constPool |-> <<>>]

\* CodeBuilder::newConstPool; node is Null when the allocation or the
\* registration fails.
newConstPool(B, holderErr) ==
  LET A == newNodeT(B, CBConstPool(0, B.nodeFlags)) IN
  IF A.node = Null THEN [b |-> A.b, err |-> kErrorOk, node |-> Null]
  ELSE LET R == registerLabelNode(A.b, A.node, holderErr)
       IN IF R.err # kErrorOk
          THEN [b |-> R.b, err |-> kErrorOk, node |-> Null]
          ELSE [b |-> R.b, err |-> kErrorOk, node |-> A.node]

\* The call newConstPool(); ret: the node, or Null.
NewConstPool(holderErr, m) ==
  /\ fault = "none"
  /\ LET R == newConstPool(Enter(m), holderErr)
     IN ReturnsGiven(R, "newConstPool", holderErr, R.node, <<>>)

\* The templates a builder is given: bits that a constructor sets itself,
\* bits that none sets, and a bit beyond the flags byte.
Templates == SUBSET {kFlagIsCode, kFlagIsRemovable, kFlagBeyondByte}

\* A builder whose _nodeFlags has been set to a template.
InitFlags == \E template \in Templates : InitWith(template)

NextFlags ==
  \/ \E id \in InstIds, o \in OperandInputs :
       Emit(id, o[1], o[2], o[3], o[4], TRUE, MaxAllocs)
  \/ /\ labelsCount < MaxLabels
     /\ NewLabel(kErrorOk, MaxAllocs)
  \/ \E label \in LabelInputs : Bind(label, MaxAllocs)
  \/ Align(kAlignCode, 16, MaxAllocs)
  \/ \E d \in DataInputs : Embed(d[1], d[2], MaxAllocs)
  \/ \E label \in LabelInputs : EmbedLabel(label, MaxAllocs)
  \/ \E text \in TextInputs : Comment(text, MaxAllocs)
  \/ /\ labelsCount < MaxLabels
     /\ NewConstPool(kErrorOk, MaxAllocs)
  \/ NewNodeT

SpecFlags == InitFlags /\ [][NextFlags]_vars

\* C40: every node a factory of the builder has created, of every variant,
\* has all bits of the builder's _nodeFlags in its flags, whatever the value
\* of _nodeFlags.
C40_TemplateFlags ==
  \A n \in 1..nNodes : cbNodeFlags \subseteq nodes[n].flags

=============================================================================
